---- MODULE Spec2Model ----
(***************************************************************************)
(* StructureScout: the Risk Ledger (modules/risk_manager.py), the Position *)
(* Lifecycle Manager (modules/position_manager.py) and the orchestrator's  *)
(* start-up (main.py), as state machines.                                  *)
(*                                                                         *)
(* Money is counted in whole units and a loss limit is a percentage, so    *)
(* pnl < -(balance * limit) is compared as pnl * 100 < -(balance * pct).   *)
(* A calendar date is a day number; its ISO week number is derived from it.*)
(***************************************************************************)
EXTENDS Integers, Sequences, FiniteSets, TLC

\* ------------------------------------------------------------------------
\* Bounds of the model
\* ------------------------------------------------------------------------
\* The calendar day on which the model starts (day 0 is a Monday).
StartDay == 4
\* Last calendar day the clock reaches.
MaxDay == 7
\* record_trade is called at most this many times in a run.
MaxRecorded == 3
\* add_open_position is not called again once the list has this length.
MaxOpenLen == 3
\* Last hour the position clock reaches.
MaxHour == 4
\* Two threads: the ledger has recorded at most this many trades beforehand.
MaxPrior == 2
\* fetch_daily_economic_calendar returns at most this many events.
MaxEvents == 2
\* The calendar days the Clock/Window Evaluator is asked about: 1..MaxCalDay.
MaxCalDay == 8

\* ------------------------------------------------------------------------
\* Program constants
\* ------------------------------------------------------------------------
DailyLossLimitPct == 3
WeeklyLossLimitPct == 6
MaxTradesPerDay == 3
MaxTradesPerWeek == 12
MaxSimultaneousPositions == 3
DaysPerWeek == 7
MaxHoldHours == 3
BeforeMinutes == 15
AfterMinutes == 30
MinutesPerDay == 1440
\* time(9, 30) and time(16, 0), in minutes since midnight.
OpenMinute == 570
CloseMinute == 960
\* max_days of calculate_next_trading_session.
MaxLookaheadDays == 10
MsPerMinute == 60000
\* end_time = "11:30", the default of is_trading_window.
DefaultWindowEnd == 690
\* America/New_York (standard time) is this many minutes behind UTC.
UtcAheadMinutes == 300
\* risk_per_trade = 0.01, as a percentage; point_value = 0.25, in quarters;
\* the fixed size of micro_live mode.
RiskPerTradePct == 1
PointValueQuarters == 1
MicroLiveSize == 2
\* None, where a time is expected.
NoTime == -1

\* Inputs
Balances == {100, 200}
PnLs == {-4, 4}
PositionIds == {1, 2}
Tickets == {101}

\* What the ledger may already hold when the model starts: the trades of the
\* earlier days of the starting week (their number and their net pnl).
EarlierThisWeek == {[n |-> 0, pnl |-> 0], [n |-> 10, pnl |-> 0]}

NoResult == [ok |-> TRUE, reason |-> "none"]

VARIABLES
    rm,          \* the RiskManager object's fields
    today,       \* datetime.now().date(), as a day number
    lastOp,      \* the operation that ran last (the checks and record_trade by name)
    ret,         \* what the last check returned: [ok, reason]
    day_sum,     \* history: sum of the pnl recorded on calendar day `today`
    day_count,   \* history: number of record_trade calls on calendar day `today`
    recorded,    \* history: number of record_trade calls so far
    breached,    \* history: can_take_trade has refused for the daily loss limit on day `today`
    open_positions, \* PositionManager.open_positions: ticket -> position record
    hour,        \* datetime.now(tz), in whole hours
    pm_last,     \* the PositionManager call that ran last and what it returned
    calls,       \* the adapter calls that call made, in order
    broker_closed, \* platform side: the tickets whose full close succeeded
    pc,          \* two threads on one ledger: where each stands in its call
    rec_pnl,     \* two threads: the pnl the recording thread was called with
    chk_ret,     \* two threads: what the checking thread's can_take_trade returned
    rm_start,    \* two threads: the ledger when the two calls began
    trading_paused,    \* StructureScoutBot.trading_paused
    running,           \* StructureScoutBot.running and TradingScheduler.running
    scheduler_jobs,    \* the jobs registered with the Job Scheduler
    scan,              \* the last run of main_analysis_workflow: what it asked and did
    halt_reported,     \* history: handle_error has returned system_halted since the last resume
    blackout_periods,  \* NewsCalendarManager.blackout_periods: list of (start, end)
    news_last,         \* the NewsCalendarManager call that ran last and what it returned
    last_update,       \* NewsCalendarManager.last_update, to the day
    upd,               \* update_calendar running beside the other calls: where it stands
    clock_last,        \* the Clock/Window Evaluator call that ran last and what it returned
    size_last,         \* the calculate_position_size call that ran last and what it returned
    sched_last,        \* the TradingScheduler call that ran last and what it returned
    registered,        \* history: the ids schedule_* returned, less those remove_job was called with
    state_file,        \* the Risk Ledger's state file
    rm2,               \* another RiskManager, the one load_state is called on
    persist_last,      \* the save_state / load_state call that ran last and what it returned
    rm_saved,          \* history: the ledger the last successful save_state wrote
    err_last           \* the error handle_error was last called with and what it returned

ledgerVars == <<rm, today, lastOp, ret, day_sum, day_count, recorded, breached>>
positionVars == <<open_positions, hour, pm_last, calls, broker_closed>>
threadVars == <<pc, rec_pnl, chk_ret, rm_start>>
botVars == <<trading_paused, running, scheduler_jobs, scan, halt_reported>>
newsVars == <<blackout_periods, news_last, last_update, upd>>
persistVars == <<state_file, rm2, persist_last, rm_saved>>
libVars == <<clock_last, size_last, sched_last, registered, persistVars, err_last>>
vars == <<ledgerVars, positionVars, threadVars, botVars, newsVars, libVars>>
\* What an operation of one component leaves alone.
notLedger == <<positionVars, threadVars, botVars, newsVars, libVars>>
notPosition == <<ledgerVars, threadVars, botVars, newsVars, libVars>>
notNews == <<ledgerVars, positionVars, threadVars, botVars, libVars>>
notLib == <<ledgerVars, positionVars, threadVars, botVars, newsVars>>

\* datetime.isocalendar()[1]: the ISO week number of a date.
IsoWeek(d) == (d \div DaysPerWeek) + 1

\* RiskManager.__init__
NewRiskManager(balance, d) ==
    [account_balance |-> balance,
     daily_pnl |-> 0,
     weekly_pnl |-> 0,
     trades_today |-> 0,
     trades_this_week |-> 0,
     open_positions |-> <<>>,
     last_reset_date |-> d,
     last_week_reset |-> IsoWeek(d)]

\* RiskManager._reset_daily_counters
ResetDailyCounters(r, d) ==
    [r EXCEPT !.daily_pnl = 0, !.trades_today = 0, !.last_reset_date = d]

\* RiskManager._reset_weekly_counters
ResetWeeklyCounters(r, d) ==
    [r EXCEPT !.weekly_pnl = 0, !.trades_this_week = 0, !.last_week_reset = IsoWeek(d)]

\* Mutant of DailyVerdict: the trade cap is tested with > instead of >=.
DailyVerdictCapOffByOne(r) ==
    IF r.daily_pnl * 100 < -(r.account_balance * DailyLossLimitPct)
    THEN [ok |-> FALSE, reason |-> "daily_loss"]
    ELSE IF r.trades_today > MaxTradesPerDay
    THEN [ok |-> FALSE, reason |-> "daily_trades"]
    ELSE [ok |-> TRUE, reason |-> "daily_ok"]

\* The limit tests of check_daily_risk_limits, after its rollover step.
DailyVerdict(r) ==
    IF r.daily_pnl * 100 < -(r.account_balance * DailyLossLimitPct)
    THEN [ok |-> FALSE, reason |-> "daily_loss"]
    ELSE IF r.trades_today >= MaxTradesPerDay
    THEN [ok |-> FALSE, reason |-> "daily_trades"]
    ELSE [ok |-> TRUE, reason |-> "daily_ok"]

\* Mutant of CheckDailyRiskLimits: the limits are tested on the counters as
\* they were before the rollover step.
CheckDailyRiskLimitsTestedFirst(r, d) ==
    LET r1 == IF d # r.last_reset_date THEN ResetDailyCounters(r, d) ELSE r
    IN  [rm |-> r1, ret |-> DailyVerdict(r)]

\* RiskManager.check_daily_risk_limits: the ledger after the call and its result.
CheckDailyRiskLimits(r, d) ==
    LET r1 == IF d # r.last_reset_date THEN ResetDailyCounters(r, d) ELSE r
    IN  [rm |-> r1, ret |-> DailyVerdict(r1)]

\* The limit tests of check_weekly_risk_limits, after its rollover step.
WeeklyVerdict(r) ==
    IF r.weekly_pnl * 100 < -(r.account_balance * WeeklyLossLimitPct)
    THEN [ok |-> FALSE, reason |-> "weekly_loss"]
    ELSE IF r.trades_this_week >= MaxTradesPerWeek
    THEN [ok |-> FALSE, reason |-> "weekly_trades"]
    ELSE [ok |-> TRUE, reason |-> "weekly_ok"]

\* RiskManager.check_weekly_risk_limits
CheckWeeklyRiskLimits(r, d) ==
    LET r1 == IF IsoWeek(d) # r.last_week_reset THEN ResetWeeklyCounters(r, d) ELSE r
    IN  [rm |-> r1, ret |-> WeeklyVerdict(r1)]

\* Mutant of CanTakeTradeResult: the weekly limits are checked before the daily ones.
CanTakeTradeWeeklyFirst(r, d) ==
    LET weekly == CheckWeeklyRiskLimits(r, d)
    IN  IF ~weekly.ret.ok THEN weekly
        ELSE LET daily == CheckDailyRiskLimits(weekly.rm, d)
             IN  IF ~daily.ret.ok THEN daily
                 ELSE IF Len(daily.rm.open_positions) >= MaxSimultaneousPositions
                 THEN [rm |-> daily.rm, ret |-> [ok |-> FALSE, reason |-> "max_positions"]]
                 ELSE [rm |-> daily.rm, ret |-> [ok |-> TRUE, reason |-> "all_ok"]]

\* RiskManager.can_take_trade
CanTakeTradeResult(r, d) ==
    LET daily == CheckDailyRiskLimits(r, d)
    IN  IF ~daily.ret.ok THEN daily
        ELSE LET weekly == CheckWeeklyRiskLimits(daily.rm, d)
             IN  IF ~weekly.ret.ok THEN weekly
                 ELSE IF Len(weekly.rm.open_positions) >= MaxSimultaneousPositions
                 THEN [rm |-> weekly.rm, ret |-> [ok |-> FALSE, reason |-> "max_positions"]]
                 ELSE [rm |-> weekly.rm, ret |-> [ok |-> TRUE, reason |-> "all_ok"]]

\* RiskManager.record_trade
RecordTradeResult(r, pnl) ==
    [r EXCEPT !.daily_pnl = @ + pnl,
              !.weekly_pnl = @ + pnl,
              !.trades_today = @ + 1,
              !.trades_this_week = @ + 1]

\* The list comprehension of remove_open_position.
RECURSIVE WithoutId(_, _)
WithoutId(s, id) ==
    IF s = <<>> THEN <<>>
    ELSE IF Head(s) = id THEN WithoutId(Tail(s), id)
    ELSE <<Head(s)>> \o WithoutId(Tail(s), id)

\* ------------------------------------------------------------------------
\* The ledger's operations, called one at a time
\* ------------------------------------------------------------------------
LedgerInit ==
    /\ today = StartDay
    /\ \E b \in Balances, e \in EarlierThisWeek :
          rm = [NewRiskManager(b, StartDay) EXCEPT !.weekly_pnl = e.pnl,
                                                   !.trades_this_week = e.n]
    /\ lastOp = "other"
    /\ ret = NoResult
    /\ day_sum = 0
    /\ day_count = 0
    /\ recorded = 0
    /\ breached = FALSE

\* Midnight passes.
NextDay ==
    /\ today < MaxDay
    /\ today' = today + 1
    /\ day_sum' = 0
    /\ day_count' = 0
    /\ lastOp' = "other"
    /\ ret' = NoResult
    /\ breached' = FALSE
    /\ UNCHANGED <<rm, recorded, notLedger>>

CanTakeTrade ==
    LET res == CanTakeTradeResult(rm, today)
    IN  /\ rm' = res.rm
        /\ ret' = res.ret
        /\ lastOp' = "can_take_trade"
        /\ breached' = (breached \/ res.ret.reason = "daily_loss")
        /\ UNCHANGED <<today, day_sum, day_count, recorded, notLedger>>

CheckDaily ==
    LET res == CheckDailyRiskLimits(rm, today)
    IN  /\ rm' = res.rm
        /\ ret' = res.ret
        /\ lastOp' = "check_daily"
        /\ UNCHANGED <<today, day_sum, day_count, recorded, breached, notLedger>>

CheckWeekly ==
    LET res == CheckWeeklyRiskLimits(rm, today)
    IN  /\ rm' = res.rm
        /\ ret' = res.ret
        /\ lastOp' = "check_weekly"
        /\ UNCHANGED <<today, day_sum, day_count, recorded, breached, notLedger>>

RecordTrade ==
    \E pnl \in PnLs :
        /\ recorded < MaxRecorded
        /\ recorded' = recorded + 1
        /\ rm' = RecordTradeResult(rm, pnl)
        /\ day_sum' = day_sum + pnl
        /\ day_count' = day_count + 1
        /\ lastOp' = "record_trade"
        /\ ret' = NoResult
        /\ UNCHANGED <<today, breached, notLedger>>

UpdateAccountBalance ==
    \E b \in Balances :
        /\ rm' = [rm EXCEPT !.account_balance = b]
        /\ lastOp' = "other"
        /\ ret' = NoResult
        /\ UNCHANGED <<today, day_sum, day_count, recorded, breached, notLedger>>

AddOpenPosition ==
    \E id \in PositionIds :
        /\ Len(rm.open_positions) < MaxOpenLen
        /\ rm' = [rm EXCEPT !.open_positions = Append(@, id)]
        /\ lastOp' = "other"
        /\ ret' = NoResult
        /\ UNCHANGED <<today, day_sum, day_count, recorded, breached, notLedger>>

RemoveOpenPosition ==
    \E id \in PositionIds :
        /\ rm' = [rm EXCEPT !.open_positions = WithoutId(@, id)]
        /\ lastOp' = "other"
        /\ ret' = NoResult
        /\ UNCHANGED <<today, day_sum, day_count, recorded, breached, notLedger>>

LedgerNext ==
    \/ NextDay
    \/ CanTakeTrade
    \/ CheckDaily
    \/ CheckWeekly
    \/ RecordTrade
    \/ UpdateAccountBalance
    \/ AddOpenPosition
    \/ RemoveOpenPosition

\* ------------------------------------------------------------------------
\* The orchestrator's start-up (main.py, StructureScoutBot.initialize)
\* ------------------------------------------------------------------------
\* The process stops, by a crash or by stop(), and is started again:
\* initialize() builds a new RiskManager from the account balance. No call of
\* RiskManager.save_state or load_state is made by stop() or initialize().
Restart ==
    \E b \in Balances :
        /\ rm' = NewRiskManager(b, today)
        /\ lastOp' = "restart"
        /\ ret' = NoResult
        /\ UNCHANGED <<today, day_sum, day_count, recorded, breached, notLedger>>

\* ------------------------------------------------------------------------
\* Two threads on one RiskManager: the scheduler's thread inside
\* can_take_trade() and another thread inside record_trade(pnl), each
\* executing its statements in order, interleaved freely. The class takes
\* no lock.
\* ------------------------------------------------------------------------
\* The trades a ledger may have recorded before the two calls begin.
PriorTrades == UNION {[1..n -> PnLs] : n \in 0..MaxPrior}

RECURSIVE RecordAll(_, _)
RecordAll(r, pnls) ==
    IF pnls = <<>> THEN r ELSE RecordAll(RecordTradeResult(r, Head(pnls)), Tail(pnls))

ThreadsIdle ==
    /\ pc = [rec |-> "idle", chk |-> "idle"]
    /\ rec_pnl = 0
    /\ chk_ret = NoResult
    /\ rm_start = rm

\* The two calls begin on a ledger built today or yesterday (so the daily,
\* and on a Monday the weekly, rollover may be pending) that has recorded
\* some trades since.
ThreadsInit ==
    /\ today \in {StartDay + 1, DaysPerWeek}
    /\ \E built \in {today - 1, today}, prior \in PriorTrades :
          rm = RecordAll(NewRiskManager(100, built), prior)
    /\ lastOp = "other" /\ ret = NoResult
    /\ day_sum = 0 /\ day_count = 0 /\ recorded = 0 /\ breached = FALSE
    /\ pc = [rec |-> "daily_pnl", chk |-> "date_test"]
    /\ rec_pnl \in PnLs
    /\ chk_ret = NoResult
    /\ rm_start = rm

threadFrame == <<today, lastOp, ret, day_sum, day_count, recorded, breached, positionVars, botVars, newsVars, libVars>>

\* record_trade, statement by statement
RecDailyPnl ==
    /\ pc.rec = "daily_pnl"
    /\ rm' = [rm EXCEPT !.daily_pnl = @ + rec_pnl]
    /\ pc' = [pc EXCEPT !.rec = "weekly_pnl"]
    /\ UNCHANGED <<rec_pnl, chk_ret, rm_start, threadFrame>>

RecWeeklyPnl ==
    /\ pc.rec = "weekly_pnl"
    /\ rm' = [rm EXCEPT !.weekly_pnl = @ + rec_pnl]
    /\ pc' = [pc EXCEPT !.rec = "trades_today"]
    /\ UNCHANGED <<rec_pnl, chk_ret, rm_start, threadFrame>>

RecTradesToday ==
    /\ pc.rec = "trades_today"
    /\ rm' = [rm EXCEPT !.trades_today = @ + 1]
    /\ pc' = [pc EXCEPT !.rec = "trades_this_week"]
    /\ UNCHANGED <<rec_pnl, chk_ret, rm_start, threadFrame>>

RecTradesThisWeek ==
    /\ pc.rec = "trades_this_week"
    /\ rm' = [rm EXCEPT !.trades_this_week = @ + 1]
    /\ pc' = [pc EXCEPT !.rec = "done"]
    /\ UNCHANGED <<rec_pnl, chk_ret, rm_start, threadFrame>>

\* can_take_trade -> check_daily_risk_limits: if today != self.last_reset_date
ChkDateTest ==
    /\ pc.chk = "date_test"
    /\ pc' = [pc EXCEPT !.chk = IF today # rm.last_reset_date
                                 THEN "reset_daily_pnl" ELSE "daily_loss_test"]
    /\ UNCHANGED <<rm, rec_pnl, chk_ret, rm_start, threadFrame>>

\* _reset_daily_counters, statement by statement
ChkResetDailyPnl ==
    /\ pc.chk = "reset_daily_pnl"
    /\ rm' = [rm EXCEPT !.daily_pnl = 0]
    /\ pc' = [pc EXCEPT !.chk = "reset_trades_today"]
    /\ UNCHANGED <<rec_pnl, chk_ret, rm_start, threadFrame>>

ChkResetTradesToday ==
    /\ pc.chk = "reset_trades_today"
    /\ rm' = [rm EXCEPT !.trades_today = 0]
    /\ pc' = [pc EXCEPT !.chk = "reset_date"]
    /\ UNCHANGED <<rec_pnl, chk_ret, rm_start, threadFrame>>

ChkResetDate ==
    /\ pc.chk = "reset_date"
    /\ rm' = [rm EXCEPT !.last_reset_date = today]
    /\ pc' = [pc EXCEPT !.chk = "daily_loss_test"]
    /\ UNCHANGED <<rec_pnl, chk_ret, rm_start, threadFrame>>

\* if self.daily_pnl < -daily_loss_amount: return False, ...
ChkDailyLossTest ==
    /\ pc.chk = "daily_loss_test"
    /\ IF rm.daily_pnl * 100 < -(rm.account_balance * DailyLossLimitPct)
       THEN /\ chk_ret' = [ok |-> FALSE, reason |-> "daily_loss"]
            /\ pc' = [pc EXCEPT !.chk = "done"]
       ELSE /\ chk_ret' = chk_ret
            /\ pc' = [pc EXCEPT !.chk = "daily_trades_test"]
    /\ UNCHANGED <<rm, rec_pnl, rm_start, threadFrame>>

\* if self.trades_today >= self.max_trades_per_day: return False, ...
ChkDailyTradesTest ==
    /\ pc.chk = "daily_trades_test"
    /\ IF rm.trades_today >= MaxTradesPerDay
       THEN /\ chk_ret' = [ok |-> FALSE, reason |-> "daily_trades"]
            /\ pc' = [pc EXCEPT !.chk = "done"]
       ELSE /\ chk_ret' = chk_ret
            /\ pc' = [pc EXCEPT !.chk = "week_test"]
    /\ UNCHANGED <<rm, rec_pnl, rm_start, threadFrame>>

\* check_weekly_risk_limits: if current_week != self.last_week_reset
ChkWeekTest ==
    /\ pc.chk = "week_test"
    /\ pc' = [pc EXCEPT !.chk = IF IsoWeek(today) # rm.last_week_reset
                                 THEN "reset_weekly_pnl" ELSE "weekly_loss_test"]
    /\ UNCHANGED <<rm, rec_pnl, chk_ret, rm_start, threadFrame>>

\* _reset_weekly_counters, statement by statement
ChkResetWeeklyPnl ==
    /\ pc.chk = "reset_weekly_pnl"
    /\ rm' = [rm EXCEPT !.weekly_pnl = 0]
    /\ pc' = [pc EXCEPT !.chk = "reset_trades_this_week"]
    /\ UNCHANGED <<rec_pnl, chk_ret, rm_start, threadFrame>>

ChkResetTradesThisWeek ==
    /\ pc.chk = "reset_trades_this_week"
    /\ rm' = [rm EXCEPT !.trades_this_week = 0]
    /\ pc' = [pc EXCEPT !.chk = "reset_week"]
    /\ UNCHANGED <<rec_pnl, chk_ret, rm_start, threadFrame>>

ChkResetWeek ==
    /\ pc.chk = "reset_week"
    /\ rm' = [rm EXCEPT !.last_week_reset = IsoWeek(today)]
    /\ pc' = [pc EXCEPT !.chk = "weekly_loss_test"]
    /\ UNCHANGED <<rec_pnl, chk_ret, rm_start, threadFrame>>

\* if self.weekly_pnl < -weekly_loss_amount: return False, ...
ChkWeeklyLossTest ==
    /\ pc.chk = "weekly_loss_test"
    /\ IF rm.weekly_pnl * 100 < -(rm.account_balance * WeeklyLossLimitPct)
       THEN /\ chk_ret' = [ok |-> FALSE, reason |-> "weekly_loss"]
            /\ pc' = [pc EXCEPT !.chk = "done"]
       ELSE /\ chk_ret' = chk_ret
            /\ pc' = [pc EXCEPT !.chk = "weekly_trades_test"]
    /\ UNCHANGED <<rm, rec_pnl, rm_start, threadFrame>>

\* if self.trades_this_week >= self.max_trades_per_week: return False, ...
ChkWeeklyTradesTest ==
    /\ pc.chk = "weekly_trades_test"
    /\ IF rm.trades_this_week >= MaxTradesPerWeek
       THEN /\ chk_ret' = [ok |-> FALSE, reason |-> "weekly_trades"]
            /\ pc' = [pc EXCEPT !.chk = "done"]
       ELSE /\ chk_ret' = chk_ret
            /\ pc' = [pc EXCEPT !.chk = "positions_test"]
    /\ UNCHANGED <<rm, rec_pnl, rm_start, threadFrame>>

\* if len(self.open_positions) >= 3: return False, ...; return True, ...
ChkPositionsTest ==
    /\ pc.chk = "positions_test"
    /\ chk_ret' = IF Len(rm.open_positions) >= MaxSimultaneousPositions
                  THEN [ok |-> FALSE, reason |-> "max_positions"]
                  ELSE [ok |-> TRUE, reason |-> "all_ok"]
    /\ pc' = [pc EXCEPT !.chk = "done"]
    /\ UNCHANGED <<rm, rec_pnl, rm_start, threadFrame>>

ThreadsNext ==
    \/ RecDailyPnl
    \/ RecWeeklyPnl
    \/ RecTradesToday
    \/ RecTradesThisWeek
    \/ ChkDateTest
    \/ ChkResetDailyPnl
    \/ ChkResetTradesToday
    \/ ChkResetDate
    \/ ChkDailyLossTest
    \/ ChkDailyTradesTest
    \/ ChkWeekTest
    \/ ChkResetWeeklyPnl
    \/ ChkResetTradesThisWeek
    \/ ChkResetWeek
    \/ ChkWeeklyLossTest
    \/ ChkWeeklyTradesTest
    \/ ChkPositionsTest

\* ------------------------------------------------------------------------
\* Position Lifecycle Manager (modules/position_manager.py)
\*
\* Prices are in hundredths of a point, so that price * 0.999 and
\* price * 1.001 are whole numbers for the prices of the model. The helpers
\* that stand for the trading platform (_get_current_price, _close_position,
\* _partial_close, _update_stop_loss) are inputs: each read of the price and
\* each outcome is chosen freely, the shipped placeholders' values (price 0,
\* success) among them.
\* ------------------------------------------------------------------------
Long == "long"
Short == "short"

\* The setups a position is opened from (open_position's setup_data).
Setups ==
    {[setup_type |-> st, setup_direction |-> Long, entry_price |-> 2125000,
      stop_loss_price |-> 2124000, take_profit_1 |-> 2128500] :
        st \in {"opening_range_breakout", "mean_reversion"}}
    \cup
    {[setup_type |-> st, setup_direction |-> Short, entry_price |-> 2125000,
      stop_loss_price |-> 2126000, take_profit_1 |-> 2121500] :
        st \in {"opening_range_breakout", "mean_reversion"}}

\* What _get_current_price may return.
Prices == {0, 2121000, 2123000, 2124000, 2126000, 2127000, 2129000}

\* PositionManager.open_position: the record it stores.
NewPositionRecord(setup, ticket, t) ==
    [ticket |-> ticket,
     setup_type |-> setup.setup_type,
     direction |-> setup.setup_direction,
     entry_time |-> t,
     entry_price |-> setup.entry_price,
     stop_loss |-> setup.stop_loss_price,
     take_profit_1 |-> setup.take_profit_1,
     original_size |-> 0,
     current_size |-> 0,
     partial_exit_done |-> FALSE,
     trailing_stop_price |-> setup.stop_loss_price,
     last_higher_low |-> setup.entry_price,
     last_lower_high |-> setup.entry_price,
     max_hold_time |-> t + MaxHoldHours]

\* PositionManager._find_new_higher_low: current_price * 0.999
FindNewHigherLow(price) == (price * 999) \div 1000

\* PositionManager._find_new_lower_high: current_price * 1.001
FindNewLowerHigh(price) == (price * 1001) \div 1000

NoAction(type) == [action_type |-> type, action_taken |-> FALSE, success |-> FALSE]

\* PositionManager._handle_max_hold_time: it closes through the _close_position
\* helper and reports the action as taken whatever the outcome.
HandleMaxHoldTime(pos, ticket, ok) ==
    [pos |-> pos,
     action |-> [action_type |-> "max_hold_time_close", action_taken |-> TRUE, success |-> ok],
     calls |-> <<[op |-> "close_position", ticket |-> ticket, arg |-> 0, ok |-> ok]>>]

\* PositionManager._check_partial_exit
CheckPartialExit(pos, ticket, price, ok) ==
    IF \/ (pos.direction = Long /\ price >= pos.take_profit_1)
       \/ (pos.direction = Short /\ price <= pos.take_profit_1)
    THEN LET exit_size == pos.original_size \div 2
         IN  [pos |-> IF ok THEN [pos EXCEPT !.partial_exit_done = TRUE] ELSE pos,
              action |-> [action_type |-> "partial_exit", action_taken |-> ok, success |-> ok],
              calls |-> <<[op |-> "partial_close", ticket |-> ticket, arg |-> exit_size, ok |-> ok]>>
                        \o (IF ok THEN <<[op |-> "move_stop_to_breakeven", ticket |-> ticket,
                                          arg |-> pos.entry_price, ok |-> TRUE]>>
                                  ELSE <<>>)]
    ELSE [pos |-> pos, action |-> NoAction("partial_exit"), calls |-> <<>>]

\* Mutant of UpdateTrailingStop: the candidate is not compared with the
\* current trailing stop before it replaces it.
UpdateTrailingStopNoRatchet(pos, ticket, price, ok) ==
    IF pos.direction = Long /\ price > pos.last_higher_low
    THEN [pos |-> IF ok THEN [pos EXCEPT !.trailing_stop_price = FindNewHigherLow(price),
                                         !.last_higher_low = price]
                        ELSE pos,
          action |-> [action_type |-> "trailing_stop", action_taken |-> ok, success |-> ok],
          calls |-> <<[op |-> "update_stop_loss", ticket |-> ticket,
                       arg |-> FindNewHigherLow(price), ok |-> ok]>>]
    ELSE IF pos.direction = Short /\ price < pos.last_lower_high
    THEN [pos |-> IF ok THEN [pos EXCEPT !.trailing_stop_price = FindNewLowerHigh(price),
                                         !.last_lower_high = price]
                        ELSE pos,
          action |-> [action_type |-> "trailing_stop", action_taken |-> ok, success |-> ok],
          calls |-> <<[op |-> "update_stop_loss", ticket |-> ticket,
                       arg |-> FindNewLowerHigh(price), ok |-> ok]>>]
    ELSE [pos |-> pos, action |-> NoAction("trailing_stop"), calls |-> <<>>]

\* PositionManager._update_trailing_stop
UpdateTrailingStop(pos, ticket, price, ok) ==
    IF pos.direction = Long /\ price > pos.last_higher_low
          /\ FindNewHigherLow(price) > pos.trailing_stop_price
    THEN [pos |-> IF ok THEN [pos EXCEPT !.trailing_stop_price = FindNewHigherLow(price),
                                         !.last_higher_low = price]
                        ELSE pos,
          action |-> [action_type |-> "trailing_stop", action_taken |-> ok, success |-> ok],
          calls |-> <<[op |-> "update_stop_loss", ticket |-> ticket,
                       arg |-> FindNewHigherLow(price), ok |-> ok]>>]
    ELSE IF pos.direction = Short /\ price < pos.last_lower_high
          /\ FindNewLowerHigh(price) < pos.trailing_stop_price
    THEN [pos |-> IF ok THEN [pos EXCEPT !.trailing_stop_price = FindNewLowerHigh(price),
                                         !.last_lower_high = price]
                        ELSE pos,
          action |-> [action_type |-> "trailing_stop", action_taken |-> ok, success |-> ok],
          calls |-> <<[op |-> "update_stop_loss", ticket |-> ticket,
                       arg |-> FindNewLowerHigh(price), ok |-> ok]>>]
    ELSE [pos |-> pos, action |-> NoAction("trailing_stop"), calls |-> <<>>]

\* PositionManager._check_mean_reversion_exit
CheckMeanReversionExit(pos, ticket, price, ok) ==
    IF \/ (pos.direction = Long /\ price >= pos.take_profit_1)
       \/ (pos.direction = Short /\ price <= pos.take_profit_1)
    THEN [pos |-> pos,
          action |-> [action_type |-> "mean_reversion_exit", action_taken |-> ok, success |-> ok],
          calls |-> <<[op |-> "close_position", ticket |-> ticket, arg |-> 0, ok |-> ok]>>]
    ELSE [pos |-> pos, action |-> NoAction("mean_reversion_exit"), calls |-> <<>>]

\* Mutant of MaxHoldReached: the deadline itself is not yet too late.
MaxHoldReachedStrict(pos, t) == t > pos.max_hold_time

\* check_position_management, check 1: current_time >= position['max_hold_time']
MaxHoldReached(pos, t) == t >= pos.max_hold_time

\* Mutant of PartialExitPending: the partial exit is evaluated on every check.
PartialExitAlwaysPending(pos) == TRUE

\* check_position_management, check 2: if not position['partial_exit_done']
PartialExitPending(pos) == ~pos.partial_exit_done

\* What a rule adds to the check's result: its action, appended to `actions`
\* only when action_taken, and the adapter calls it made.
Then(r, step) ==
    [pos |-> step.pos,
     actions |-> r.actions \o (IF step.action.action_taken THEN <<step.action>> ELSE <<>>),
     calls |-> r.calls \o step.calls]

\* PositionManager.check_position_management for a tracked ticket at time t:
\* every (record after the check, actions returned, adapter calls made) that
\* the price reads and the adapter's outcomes can produce. The four rules run
\* in the order of the code, each on the record the previous one left.
CheckOutcomes(pos, ticket, t) ==
    LET start == {[pos |-> pos, actions |-> <<>>, calls |-> <<>>]}
        hold == IF MaxHoldReached(pos, t)
                THEN {Then(r, HandleMaxHoldTime(r.pos, ticket, ok)) :
                          r \in start, ok \in BOOLEAN}
                ELSE start
        part == UNION {IF PartialExitPending(r.pos)
                       THEN {Then(r, CheckPartialExit(r.pos, ticket, price, ok)) :
                                 price \in Prices, ok \in BOOLEAN}
                       ELSE {r} : r \in hold}
        trail == UNION {{Then(r, UpdateTrailingStop(r.pos, ticket, price, ok)) :
                             price \in Prices, ok \in BOOLEAN} : r \in part}
    IN  UNION {IF r.pos.setup_type = "mean_reversion"
               THEN {Then(r, CheckMeanReversionExit(r.pos, ticket, price, ok)) :
                         price \in Prices, ok \in BOOLEAN}
               ELSE {r} : r \in trail}

\* The tickets on which the adapter reported a successful full close.
ClosedBy(cs) == {cs[i].ticket : i \in {j \in DOMAIN cs : cs[j].op = "close_position" /\ cs[j].ok}}

NoCheck == [op |-> "other", ticket |-> 0, status |-> "none", actions |-> <<>>]

PositionInit ==
    /\ open_positions = <<>>
    /\ hour = 0
    /\ pm_last = NoCheck
    /\ calls = <<>>
    /\ broker_closed = {}

\* An hour passes.
NextHour ==
    /\ hour < MaxHour
    /\ hour' = hour + 1
    /\ pm_last' = NoCheck
    /\ calls' = <<>>
    /\ UNCHANGED <<open_positions, broker_closed, notPosition>>

\* PositionManager.open_position, with a ticket the platform has just issued.
OpenPosition ==
    \E ticket \in Tickets, setup \in Setups :
        /\ ticket \notin DOMAIN open_positions
        /\ ticket \notin broker_closed
        /\ open_positions' = (ticket :> NewPositionRecord(setup, ticket, hour)) @@ open_positions
        /\ pm_last' = NoCheck
        /\ calls' = <<>>
        /\ UNCHANGED <<hour, broker_closed, notPosition>>

\* PositionManager.check_position_management
CheckPositionManagement ==
    \E ticket \in Tickets :
        IF ticket \notin DOMAIN open_positions
        THEN /\ pm_last' = [op |-> "check", ticket |-> ticket,
                            status |-> "no_position_found", actions |-> <<>>]
             /\ calls' = <<>>
             /\ UNCHANGED <<open_positions, hour, broker_closed, notPosition>>
        ELSE \E res \in CheckOutcomes(open_positions[ticket], ticket, hour) :
                /\ open_positions' = [open_positions EXCEPT ![ticket] = res.pos]
                /\ pm_last' = [op |-> "check", ticket |-> ticket,
                               status |-> "completed", actions |-> res.actions]
                /\ calls' = res.calls
                /\ broker_closed' = broker_closed \cup ClosedBy(res.calls)
                /\ UNCHANGED <<hour, notPosition>>

\* PositionManager.close_position: close and, on success, stop tracking.
ClosePosition ==
    \E ticket \in Tickets, ok \in BOOLEAN :
        /\ ticket \in DOMAIN open_positions
        /\ calls' = <<[op |-> "close_position", ticket |-> ticket, arg |-> 0, ok |-> ok]>>
        /\ open_positions' = IF ok
                             THEN [t \in DOMAIN open_positions \ {ticket} |-> open_positions[t]]
                             ELSE open_positions
        /\ broker_closed' = broker_closed \cup ClosedBy(calls')
        /\ pm_last' = [NoCheck EXCEPT !.op = "close", !.ticket = ticket]
        /\ UNCHANGED <<hour, notPosition>>

PositionNext ==
    \/ NextHour
    \/ OpenPosition
    \/ CheckPositionManagement
    \/ ClosePosition

\* ------------------------------------------------------------------------
\* Session Orchestrator (main.py, StructureScoutBot) after start(): the Job
\* Scheduler runs with the jobs start() registered. The answers of the Window
\* Evaluator and the News Blackout Tracker, the outcome of
\* get_previous_day_levels and of the state save, and whether a call raises,
\* are inputs of each run; the Risk Ledger's answer is can_take_trade() on rm.
\* ------------------------------------------------------------------------
\* What a gate call can do: answer yes or no, or raise an exception.
GateAnswers == {"yes", "no", "raise"}

\* get_previous_day_levels: returns the levels, returns nothing, or raises.
LevelsOutcomes == {"ok", "none", "raise"}

\* classify_error_severity of the exception a run raised.
Severities == {"critical", "high", "medium", "low"}

\* The inputs of one run of main_analysis_workflow.
ScanInputs ==
    [window : GateAnswers, news : GateAnswers, risk_raises : BOOLEAN,
     levels : LevelsOutcomes, save_ok : BOOLEAN, severity : Severities]

\* start(): one scan job per configured scan time (two of them here) and the
\* daily summary job. No other job is registered.
RegisteredJobs == {"scan_0930", "scan_0945", "daily_1200"}

\* A run that has asked nothing and done nothing. `paused` is the value of
\* trading_paused when the run began.
NoScan ==
    [ran |-> FALSE, paused |-> FALSE,
     window |-> "unasked", news |-> "unasked", risk |-> "unasked",
     levels |-> "unasked", analysed |-> FALSE, saved |-> FALSE,
     raised |-> FALSE, system_halted |-> FALSE]

\* handle_error: system_halted of the result it returns.
HandleError(severity) == [severity |-> severity, system_halted |-> (severity = "critical")]

\* Mutant of SkipsWhenPaused: the pause flag is not looked at.
NeverSkips(paused) == FALSE

\* main_analysis_workflow: if self.trading_paused: return
SkipsWhenPaused(paused) == paused

\* Mutant of GatePasses: only an explicit "no" stops the run.
GatePassesUnlessNo(answer) == answer # "no"

\* Mutant of GatePasses: no answer stops the run.
GatePassesAlways(answer) == TRUE

\* A gate lets the run continue when its call returned and said yes; a "no"
\* returns from the workflow, a raise leaves the try block.
GatePasses(answer) == answer = "yes"

\* How a run that stopped at a call ends: a return, or the except clause,
\* which passes the exception to handle_error and drops its result.
Ended(s, answer, severity) ==
    IF answer = "raise"
    THEN [s EXCEPT !.raised = TRUE, !.system_halted = HandleError(severity).system_halted]
    ELSE s

\* Mutant of MainAnalysisWorkflow: can_take_trade is called before the
\* window and news checks, so its rollover resets happen in refused runs too.
MainAnalysisWorkflowRiskFirst(paused, r, d, in) ==
    LET risk == CanTakeTradeResult(r, d)
        riskAnswer == IF in.risk_raises THEN "raise"
                      ELSE IF risk.ret.ok THEN "yes" ELSE "no"
        s0 == [NoScan EXCEPT !.ran = TRUE, !.paused = paused]
        s1 == [s0 EXCEPT !.window = in.window]
        s2 == [s1 EXCEPT !.news = in.news]
        s3 == [s2 EXCEPT !.risk = riskAnswer]
        s4 == [s3 EXCEPT !.levels = in.levels]
        r3 == IF in.risk_raises THEN r ELSE risk.rm
    IN  IF SkipsWhenPaused(paused)
        THEN [scan |-> s0, rm |-> r, ret |-> NoResult]
        ELSE IF ~GatePasses(in.window)
        THEN [scan |-> Ended(s1, in.window, in.severity), rm |-> r3, ret |-> NoResult]
        ELSE IF ~GatePasses(in.news)
        THEN [scan |-> Ended(s2, in.news, in.severity), rm |-> r3, ret |-> NoResult]
        ELSE IF ~GatePasses(riskAnswer)
        THEN [scan |-> Ended(s3, riskAnswer, in.severity), rm |-> r3,
              ret |-> IF in.risk_raises THEN NoResult ELSE risk.ret]
        ELSE IF in.levels # "ok"
        THEN [scan |-> Ended(s4, in.levels, in.severity), rm |-> r3, ret |-> risk.ret]
        ELSE [scan |-> [s4 EXCEPT !.analysed = TRUE, !.saved = in.save_ok],
              rm |-> r3, ret |-> risk.ret]

\* StructureScoutBot.main_analysis_workflow on ledger r at date d: what the run
\* asked and did, and the ledger it leaves.
MainAnalysisWorkflow(paused, r, d, in) ==
    LET risk == CanTakeTradeResult(r, d)
        riskAnswer == IF in.risk_raises THEN "raise"
                      ELSE IF risk.ret.ok THEN "yes" ELSE "no"
        s0 == [NoScan EXCEPT !.ran = TRUE, !.paused = paused]
        s1 == [s0 EXCEPT !.window = in.window]
        s2 == [s1 EXCEPT !.news = in.news]
        s3 == [s2 EXCEPT !.risk = riskAnswer]
        s4 == [s3 EXCEPT !.levels = in.levels]
        r3 == IF in.risk_raises THEN r ELSE risk.rm
    IN  IF SkipsWhenPaused(paused)
        THEN [scan |-> s0, rm |-> r, ret |-> NoResult]
        ELSE IF ~GatePasses(in.window)
        THEN [scan |-> Ended(s1, in.window, in.severity), rm |-> r, ret |-> NoResult]
        ELSE IF ~GatePasses(in.news)
        THEN [scan |-> Ended(s2, in.news, in.severity), rm |-> r, ret |-> NoResult]
        ELSE IF ~GatePasses(riskAnswer)
        THEN [scan |-> Ended(s3, riskAnswer, in.severity), rm |-> r3,
              ret |-> IF in.risk_raises THEN NoResult ELSE risk.ret]
        ELSE IF in.levels # "ok"
        THEN [scan |-> Ended(s4, in.levels, in.severity), rm |-> r3, ret |-> risk.ret]
        ELSE [scan |-> [s4 EXCEPT !.analysed = TRUE, !.saved = in.save_ok],
              rm |-> r3, ret |-> risk.ret]

\* The bot after start() has returned from initialize() and started the scheduler.
BotInit ==
    /\ trading_paused = FALSE
    /\ running = TRUE
    /\ scheduler_jobs = RegisteredJobs
    /\ scan = NoScan
    /\ halt_reported = FALSE

\* Every (run, ledger, result) one run of main_analysis_workflow can produce.
ScanOutcomes(paused, r, d) == {MainAnalysisWorkflow(paused, r, d, in) : in \in ScanInputs}

\* The scan jobs among the registered jobs.
ScanJobs(jobs) == jobs \ {"daily_1200"}

\* The Job Scheduler fires a scan job: main_analysis_workflow runs.
FireScan ==
    /\ running
    /\ ScanJobs(scheduler_jobs) # {}
    /\ \E res \in ScanOutcomes(trading_paused, rm, today) :
            /\ scan' = res.scan
            /\ rm' = res.rm
            /\ ret' = res.ret
            /\ lastOp' = IF res.ret = NoResult THEN "other" ELSE "can_take_trade"
            /\ breached' = (breached \/ res.ret.reason = "daily_loss")
            /\ halt_reported' = (halt_reported \/ res.scan.system_halted)
            /\ UNCHANGED <<trading_paused, running, scheduler_jobs>>
            /\ UNCHANGED <<today, day_sum, day_count, recorded, positionVars, threadVars, newsVars, libVars>>

\* StructureScoutBot.pause_trading (the /stop command)
PauseTrading ==
    /\ running
    /\ trading_paused' = TRUE
    /\ UNCHANGED <<running, scheduler_jobs, scan, halt_reported>>
    /\ UNCHANGED <<ledgerVars, positionVars, threadVars, newsVars, libVars>>

\* StructureScoutBot.resume_trading (the /resume command)
ResumeTrading ==
    /\ running
    /\ trading_paused' = FALSE
    /\ halt_reported' = FALSE
    /\ UNCHANGED <<running, scheduler_jobs, scan>>
    /\ UNCHANGED <<ledgerVars, positionVars, threadVars, newsVars, libVars>>

\* StructureScoutBot.stop: the scheduler is shut down, its jobs with it.
StopBot ==
    /\ running
    /\ running' = FALSE
    /\ scheduler_jobs' = {}
    /\ UNCHANGED <<trading_paused, scan, halt_reported>>
    /\ UNCHANGED <<ledgerVars, positionVars, threadVars, newsVars, libVars>>

\* ------------------------------------------------------------------------
\* News Blackout Tracker (modules/news_calendar.py). A time of day is a
\* number of minutes since midnight; a datetime is a number of minutes since
\* midnight of the day the bot was started.
\* ------------------------------------------------------------------------
\* The datetime of minute m of day d.
At(d, m) == (d - StartDay) * MinutesPerDay + m

\* The times at which the fetched events are announced: 08:30, 09:00, and a
\* time string that does not parse (25:00).
EventTimes == {510, 540, 1500}

\* The events fetch_daily_economic_calendar may return.
Events == [time : EventTimes, impact : {"high", "low"}]
EventLists == UNION {[1..n -> Events] : n \in 0..MaxEvents}

\* The times at which the tracker is asked.
CheckTimes == {494, 495, 524, 525, 540, 541, 570, 571}

\* datetime.replace(hour, minute) succeeds for a time of day only.
ParsesAsTime(m) == m \in 0..(MinutesPerDay - 1)

\* identify_news_blackout_periods: one period per high-impact event whose
\* time parses, in the order of the events. The event's time is put on the
\* date of datetime.now(tz).
RECURSIVE IdentifyNewsBlackoutPeriods(_)
IdentifyNewsBlackoutPeriods(events) ==
    IF events = <<>> THEN <<>>
    ELSE LET e == Head(events)
             rest == IdentifyNewsBlackoutPeriods(Tail(events))
         IN  IF e.impact = "high" /\ ParsesAsTime(e.time)
             THEN <<<<At(today, e.time) - BeforeMinutes,
                      At(today, e.time) + AfterMinutes>>>> \o rest
             ELSE rest

\* The first blackout period of the list that contains t, as an index; 0 if
\* no period contains t.
RECURSIVE FirstPeriodAt(_, _, _)
FirstPeriodAt(t, periods, i) ==
    IF i > Len(periods) THEN 0
    ELSE IF periods[i][1] <= t /\ t <= periods[i][2] THEN i
    ELSE FirstPeriodAt(t, periods, i + 1)

\* Mutant of IsTradingAllowedNow: the end of a period is not part of it.
IsTradingAllowedNowEndExclusive(t, periods) ==
    LET inside == {i \in DOMAIN periods : periods[i][1] <= t /\ t < periods[i][2]}
    IN  IF inside = {} THEN [safe |-> TRUE, at |-> NoTime]
        ELSE [safe |-> FALSE, at |-> periods[CHOOSE i \in inside : \A j \in inside : i <= j][1]]

\* is_trading_allowed_now: (False, reason naming the start of the first
\* period containing t), or (True, "No news conflicts").
IsTradingAllowedNow(t, periods) ==
    LET i == FirstPeriodAt(t, periods, 1)
    IN  IF i = 0 THEN [safe |-> TRUE, at |-> NoTime]
        ELSE [safe |-> FALSE, at |-> periods[i][1]]

\* Mutant of GetNextSafeTime: the start of the period is returned.
GetNextSafeTimeStart(t, periods) ==
    IF IsTradingAllowedNow(t, periods).safe THEN NoTime
    ELSE LET i == FirstPeriodAt(t, periods, 1)
         IN  IF i = 0 THEN t ELSE periods[i][1]

\* NewsCalendarManager.get_next_safe_time: None if safe, else the end of the
\* first period containing t (and t itself if the loop finds none).
GetNextSafeTime(t, periods) ==
    IF IsTradingAllowedNow(t, periods).safe THEN NoTime
    ELSE LET i == FirstPeriodAt(t, periods, 1)
         IN  IF i = 0 THEN t ELSE periods[i][2]

NoNewsCall ==
    [op |-> "none", t |-> NoTime, safe |-> TRUE, at |-> NoTime, next |-> NoTime,
     date |-> NoTime, events |-> <<>>, ok |-> TRUE]

\* No update_calendar call is under way.
UpdIdle ==
    [pc |-> "idle", date |-> NoTime, events |-> <<>>, i |-> 1, built |-> <<>>,
     old_periods |-> <<>>, old_last |-> NoTime]

\* NewsCalendarManager.__init__
NewsInit ==
    /\ blackout_periods = <<>>
    /\ last_update = NoTime
    /\ news_last = NoNewsCall
    /\ upd = UpdIdle

\* The dates update_calendar is called with: today's, or tomorrow's.
CalendarDates == {today, today + 1}

\* NewsCalendarManager.update_calendar(date): the events of that date are
\* fetched and the set is rebuilt, or the fetch raises and False is returned.
UpdateCalendar ==
    \E date \in CalendarDates, events \in EventLists, fetched \in BOOLEAN :
        /\ upd.pc = "idle"
        /\ IF fetched
           THEN /\ blackout_periods' = IdentifyNewsBlackoutPeriods(events)
                /\ last_update' = today
                /\ news_last' = [NoNewsCall EXCEPT !.op = "update_calendar", !.date = date,
                                                   !.events = events, !.ok = TRUE]
           ELSE /\ news_last' = [NoNewsCall EXCEPT !.op = "update_calendar", !.date = date,
                                                   !.ok = FALSE]
                /\ UNCHANGED <<blackout_periods, last_update>>
        /\ UNCHANGED <<upd, notNews>>

\* NewsCalendarManager.is_safe_to_trade(check_time)
IsSafeToTrade ==
    \E m \in CheckTimes :
        LET t == At(today, m)
            res == IsTradingAllowedNow(t, blackout_periods)
        IN  /\ news_last' = [NoNewsCall EXCEPT !.op = "is_safe_to_trade", !.t = t,
                                               !.safe = res.safe, !.at = res.at]
            /\ UNCHANGED <<blackout_periods, last_update, upd, notNews>>

\* NewsCalendarManager.get_next_safe_time(current_time)
NextSafeTime ==
    \E m \in CheckTimes :
        LET t == At(today, m)
        IN  /\ news_last' = [NoNewsCall EXCEPT !.op = "get_next_safe_time", !.t = t,
                                               !.next = GetNextSafeTime(t, blackout_periods)]
            /\ UNCHANGED <<blackout_periods, last_update, upd, notNews>>

NewsNext ==
    \/ UpdateCalendar
    \/ IsSafeToTrade
    \/ NextSafeTime

\* ------------------------------------------------------------------------
\* update_calendar statement by statement, beside is_safe_to_trade running
\* in another thread: the fetch, the loop of
\* identify_news_blackout_periods over the events (its list is a local),
\* the assignment of self.blackout_periods, the assignment of
\* self.last_update.
\* ------------------------------------------------------------------------
\* Mutant of DuringBuild: the loop appends to self.blackout_periods itself.
DuringBuildInPlace(periods, built) == built

\* self.blackout_periods while the loop runs: the loop appends to a local
\* list and leaves the attribute alone.
DuringBuild(periods, built) == periods

\* What update_calendar returned, as the last call's record.
UpdateReturned(u, ok) ==
    [NoNewsCall EXCEPT !.op = "update_calendar", !.date = u.date, !.ok = ok]

\* update_calendar has returned: its locals are gone (the list it built and
\* the set and stamp it started from are kept as history).
UpdDone(u) == [u EXCEPT !.pc = "idle", !.events = <<>>, !.i = 1]

\* events = fetch_daily_economic_calendar(date), or the fetch raises and
\* update_calendar returns False. The date is today's, as in initialize().
UpdFetch ==
    \E events \in EventLists, fetched \in BOOLEAN :
        LET u == [pc |-> "build", date |-> today, events |-> events, i |-> 1,
                  built |-> <<>>, old_periods |-> blackout_periods,
                  old_last |-> last_update]
        IN  /\ upd.pc = "idle"
            /\ IF fetched
               THEN /\ upd' = u
                    /\ UNCHANGED news_last
               ELSE /\ upd' = UpdDone(u)
                    /\ news_last' = UpdateReturned(u, FALSE)
            /\ UNCHANGED <<blackout_periods, last_update, notNews>>

\* One turn of the loop: the event's period is appended to the local list,
\* or classify_event_impact raises and update_calendar returns False.
UpdBuild ==
    \E raises \in BOOLEAN :
        /\ upd.pc = "build"
        /\ upd.i <= Len(upd.events)
        /\ IF raises
           THEN /\ upd' = UpdDone(upd)
                /\ news_last' = UpdateReturned(upd, FALSE)
                /\ UNCHANGED blackout_periods
           ELSE LET built == upd.built \o IdentifyNewsBlackoutPeriods(<<upd.events[upd.i]>>)
                IN  /\ upd' = [upd EXCEPT !.i = upd.i + 1, !.built = built]
                    /\ blackout_periods' = DuringBuild(blackout_periods, built)
                    /\ UNCHANGED news_last
        /\ UNCHANGED <<last_update, notNews>>

\* self.blackout_periods = identify_news_blackout_periods(events)
UpdAssign ==
    /\ upd.pc = "build"
    /\ upd.i > Len(upd.events)
    /\ blackout_periods' = upd.built
    /\ upd' = [upd EXCEPT !.pc = "stamp"]
    /\ UNCHANGED <<news_last, last_update, notNews>>

\* self.last_update = datetime.now(self.tz); return True
UpdStamp ==
    /\ upd.pc = "stamp"
    /\ last_update' = today
    /\ upd' = UpdDone(upd)
    /\ news_last' = UpdateReturned(upd, TRUE)
    /\ UNCHANGED <<blackout_periods, notNews>>

NewsUpdateNext ==
    \/ UpdFetch
    \/ UpdBuild
    \/ UpdAssign
    \/ UpdStamp
    \/ IsSafeToTrade

\* ------------------------------------------------------------------------
\* The running bot and its News Blackout Tracker over several days.
\* ------------------------------------------------------------------------
\* StructureScoutBot.initialize: the tracker is built and
\* update_calendar(datetime.now()) is called once; its result is not looked at.
InitializeCalendar ==
    /\ news_last.op = "none"
    /\ UpdateCalendar
    /\ news_last'.date = today

\* What is_safe_to_trade() can answer a scan now, from the tracked periods.
NewsAnswers ==
    {IF IsTradingAllowedNow(At(today, m), blackout_periods).safe THEN "yes" ELSE "no" :
        m \in CheckTimes}

\* A scan job fires after initialize(): the news check of
\* main_analysis_workflow reads the tracker's blackout_periods.
ScanWithNews ==
    /\ news_last.op = "update_calendar"
    /\ FireScan
    /\ scan'.news \in ({"unasked", "raise"} \cup NewsAnswers)

NextBotNews ==
    \/ InitializeCalendar
    \/ ScanWithNews
    \/ NextDay

\* ------------------------------------------------------------------------
\* Clock/Window Evaluator (modules/scheduler.py): pure functions of a
\* timestamp. A timestamp is a day number (day 0 is a Monday), a minute of
\* that day, and a zone: "naive" (no tzinfo), "local" (the configured zone,
\* America/New_York) or "utc".
\* ------------------------------------------------------------------------
Zones == {"naive", "local", "utc"}

\* The timestamps the functions are called with: around the opening, the
\* end of the default window and the close, in local time and in UTC.
ClockMinutes == {120, 569, 570, 690, 691, 870, 959, 960, 1260}
\* The minutes at which timestamps a little past the minute are tried too,
\* and how far past, in milliseconds.
LateMinutes == {569, 690, 959}
SubMinutes == {50}

Timestamps ==
    [day : 1..MaxCalDay, minute : ClockMinutes, ms : {0}, zone : Zones]
    \cup [day : 1..MaxCalDay, minute : LateMinutes, ms : SubMinutes, zone : Zones]

\* datetime.time(): the time of day, in milliseconds since midnight.
TimeOfDay(t) == t.minute * MsPerMinute + t.ms

\* US_MARKET_HOLIDAYS_2026, with day 0 = Monday 2026-04-06: Good Friday
\* (2026-04-10) is day 4.
Holidays == {4}

\* The trading windows asked about, as (start, end): the default 09:30-11:30,
\* one that begins before the open, one that ends after the close.
Windows == {<<OpenMinute, 690>>, <<540, 600>>, <<900, 1000>>}

\* datetime.weekday(): Monday is 0, Sunday is 6.
Weekday(d) == d % DaysPerWeek

\* t + timedelta(days = n)
PlusDays(t, n) == [t EXCEPT !.day = t.day + n]

\* tz.localize(t) for a naive timestamp, t.astimezone(tz) otherwise: the same
\* instant on New York's clock.
ToZone(t) ==
    IF t.zone = "utc"
    THEN LET total == t.day * MinutesPerDay + t.minute - UtcAheadMinutes
         IN  [day |-> total \div MinutesPerDay, minute |-> total % MinutesPerDay,
              ms |-> t.ms, zone |-> "local"]
    ELSE [t EXCEPT !.zone = "local"]

\* Mutant of IsMarketOpen: the closing minute counts as open.
IsMarketOpenAtClose(t) ==
    LET l == ToZone(t)
    IN  IF Weekday(l.day) >= 5 THEN [open |-> FALSE, reason |-> "weekend"]
        ELSE IF l.day \in Holidays THEN [open |-> FALSE, reason |-> "holiday"]
        ELSE IF TimeOfDay(l) < OpenMinute * MsPerMinute
        THEN [open |-> FALSE, reason |-> "before_open"]
        ELSE IF TimeOfDay(l) > CloseMinute * MsPerMinute
        THEN [open |-> FALSE, reason |-> "after_close"]
        ELSE [open |-> TRUE, reason |-> "open"]

\* is_market_open(check_time)
IsMarketOpen(t) ==
    LET l == ToZone(t)
    IN  IF Weekday(l.day) >= 5 THEN [open |-> FALSE, reason |-> "weekend"]
        ELSE IF l.day \in Holidays THEN [open |-> FALSE, reason |-> "holiday"]
        ELSE IF TimeOfDay(l) < OpenMinute * MsPerMinute
        THEN [open |-> FALSE, reason |-> "before_open"]
        ELSE IF TimeOfDay(l) >= CloseMinute * MsPerMinute
        THEN [open |-> FALSE, reason |-> "after_close"]
        ELSE [open |-> TRUE, reason |-> "open"]

\* Mutant of IsTradingWindow: the window's end is not part of it.
IsTradingWindowEndExclusive(t, start, end) ==
    IF ~IsMarketOpen(t).open THEN FALSE
    ELSE /\ start * MsPerMinute <= TimeOfDay(ToZone(t))
         /\ TimeOfDay(ToZone(t)) < end * MsPerMinute

\* is_trading_window(check_time, start_time, end_time)
IsTradingWindow(t, start, end) ==
    IF ~IsMarketOpen(t).open THEN FALSE
    ELSE /\ start * MsPerMinute <= TimeOfDay(ToZone(t))
         /\ TimeOfDay(ToZone(t)) <= end * MsPerMinute

\* The loop of calculate_next_trading_session: n more turns from session s;
\* the session found, or the fallback when the turns are used up.
RECURSIVE AdvanceToOpen(_, _, _)
AdvanceToOpen(s, n, fallback) ==
    IF n = 0 THEN [at |-> fallback, steps |-> MaxLookaheadDays, found |-> FALSE]
    ELSE IF IsMarketOpen(s).open
         THEN [at |-> s, steps |-> MaxLookaheadDays - n, found |-> TRUE]
         ELSE AdvanceToOpen(PlusDays(s, 1), n - 1, fallback)

\* calculate_next_trading_session(current_time): only a naive timestamp is
\* put in the configured zone; replace(hour=9, minute=30, second=0,
\* microsecond=0) keeps the zone the timestamp has.
CalculateNextTradingSession(t) ==
    LET cur == IF t.zone = "naive" THEN [t EXCEPT !.zone = "local"] ELSE t
        first == [PlusDays(cur, 1) EXCEPT !.minute = OpenMinute, !.ms = 0]
    IN  AdvanceToOpen(first, MaxLookaheadDays, PlusDays(cur, 1))

NoClockCall ==
    [op |-> "none", t |-> [day |-> 0, minute |-> 0, ms |-> 0, zone |-> "naive"],
     start |-> 0, end |-> 0, open |-> FALSE, reason |-> "none", in_window |-> FALSE,
     at |-> [day |-> 0, minute |-> 0, ms |-> 0, zone |-> "naive"], steps |-> 0, found |-> FALSE]

LibInit ==
    /\ clock_last = NoClockCall
    /\ size_last = [op |-> "none", mode |-> "none", ticks |-> 0, override |-> 0, size |-> 0]
    /\ sched_last = [op |-> "none", id |-> "none", ok |-> TRUE, jobs |-> {}]
    /\ registered = RegisteredJobs
    /\ state_file = [exists |-> FALSE, valid |-> FALSE, lacks |-> "none", state |-> <<>>]
    /\ rm2 = NewRiskManager(0, StartDay)
    /\ rm_saved = NewRiskManager(0, StartDay)
    /\ persist_last = [op |-> "none", ok |-> TRUE]
    /\ err_last = [type |-> "none", message |-> "", notify_user |-> FALSE,
                   severity |-> "low", system_halted |-> FALSE, notification_sent |-> FALSE]

\* is_market_open is called.
CallIsMarketOpen ==
    \E t \in Timestamps :
        LET res == IsMarketOpen(t)
        IN  /\ clock_last' = [NoClockCall EXCEPT !.op = "is_market_open", !.t = t,
                                                !.open = res.open, !.reason = res.reason]
            /\ UNCHANGED <<size_last, sched_last, registered, persistVars, err_last, notLib>>

\* is_trading_window is called.
CallIsTradingWindow ==
    \E t \in Timestamps, w \in Windows :
        /\ clock_last' = [NoClockCall EXCEPT !.op = "is_trading_window", !.t = t,
                             !.start = w[1], !.end = w[2],
                             !.in_window = IsTradingWindow(t, w[1], w[2])]
        /\ UNCHANGED <<size_last, sched_last, registered, persistVars, err_last, notLib>>

\* calculate_next_trading_session is called.
CallCalculateNextTradingSession ==
    \E t \in Timestamps :
        LET res == CalculateNextTradingSession(t)
        IN  /\ clock_last' = [NoClockCall EXCEPT !.op = "calculate_next_trading_session",
                                 !.t = t, !.at = res.at, !.steps = res.steps,
                                 !.found = res.found]
            /\ UNCHANGED <<size_last, sched_last, registered, persistVars, err_last, notLib>>

\* get_scan_times(): the scan schedule, as minutes of the day.
ScanTimes == {570, 585, 600, 615, 630, 660, 690}

\* How long after its scheduled instant a scan job reads the clock, in
\* milliseconds.
FireDelays == {0, 50, 1000}

\* A scan job fires on a weekday (CronTrigger day_of_week='mon-fri', at the
\* scan time on New York's clock) and main_analysis_workflow makes its window
\* check: is_trading_window(datetime.now()), with the default 09:30-11:30.
ScanWindowCheck ==
    \E d \in 1..MaxCalDay, s \in ScanTimes, delay \in FireDelays :
        LET t == [day |-> d, minute |-> s, ms |-> delay, zone |-> "naive"]
        IN  /\ Weekday(d) \in 0..4
            /\ clock_last' = [NoClockCall EXCEPT !.op = "scan_window_check", !.t = t,
                                 !.start = OpenMinute, !.end = DefaultWindowEnd,
                                 !.in_window = IsTradingWindow(t, OpenMinute, DefaultWindowEnd)]
            /\ UNCHANGED <<size_last, sched_last, registered, persistVars, err_last, notLib>>

ClockNext ==
    \/ CallIsMarketOpen
    \/ CallIsTradingWindow
    \/ CallCalculateNextTradingSession
    \/ ScanWindowCheck

\* ------------------------------------------------------------------------
\* Position sizing (RiskManager.calculate_position_size). The balance is in
\* whole units, risk_per_trade is a percentage, and point_value is a number
\* of quarters, so risk_amount / dollar_risk_per_contract is
\* (balance * pct * 4) / (100 * ticks * quarters).
\* ------------------------------------------------------------------------
Modes == {"observation", "paper_trading", "micro_live", "full_live", "backtest"}

\* The stop distances, in ticks, and the balances sizing is asked with.
StopDistances == {-5, 0, 1, 3, 7, 20}
SizeBalances == {0, 100, 1230, 5000}

\* override_fixed_size: None (0 here, which `or` treats alike) or a size.
Overrides == {0, 5}

\* int(x) of the quotient num / den, den > 0: rounds toward zero.
IntOfQuotient(num, den) ==
    IF num >= 0 THEN num \div den ELSE -((-num) \div den)

\* max(a, b)
Max(a, b) == IF a >= b THEN a ELSE b

\* Mutant of CalculatePositionSize: the quotient is rounded up.
CalculatePositionSizeRoundedUp(r, mode, ticks, override) ==
    IF mode \in {"observation", "paper_trading"} THEN 0
    ELSE IF mode = "micro_live" THEN (IF override # 0 THEN override ELSE MicroLiveSize)
    ELSE IF mode = "full_live"
         THEN IF ticks <= 0 THEN 0
              ELSE LET num == r.account_balance * RiskPerTradePct * 4
                       den == 100 * ticks * PointValueQuarters
                   IN  Max(IntOfQuotient(num + den - 1, den), 0)
    ELSE 0

\* RiskManager.calculate_position_size(mode, stop_distance_ticks,
\* override_fixed_size)
CalculatePositionSize(r, mode, ticks, override) ==
    IF mode \in {"observation", "paper_trading"} THEN 0
    ELSE IF mode = "micro_live" THEN (IF override # 0 THEN override ELSE MicroLiveSize)
    ELSE IF mode = "full_live"
         THEN IF ticks <= 0 THEN 0
              ELSE LET num == r.account_balance * RiskPerTradePct * 4
                       den == 100 * ticks * PointValueQuarters
                   IN  Max(IntOfQuotient(num, den), 0)
    ELSE 0

\* calculate_position_size is called.
CallCalculatePositionSize ==
    \E mode \in Modes, ticks \in StopDistances, override \in Overrides :
        /\ size_last' = [op |-> "calculate_position_size", mode |-> mode, ticks |-> ticks,
                         override |-> override,
                         size |-> CalculatePositionSize(rm, mode, ticks, override)]
        /\ UNCHANGED <<clock_last, sched_last, registered, persistVars, err_last, notLib>>

\* gpt_analysis.calculate_position_size(setup_data, account_balance), with the
\* default risk_percentage 0.01 and point_value 0.25: its position_size.
\* int() rounds the quotient toward zero, whatever its sign.
GptCalculatePositionSize(balance, ticks) ==
    IF ticks = 0 THEN 0
    ELSE LET num == balance * RiskPerTradePct * 4
             den == 100 * ticks * PointValueQuarters
         IN  IF den > 0 THEN IntOfQuotient(num, den) ELSE -IntOfQuotient(num, -den)

\* gpt_analysis.calculate_position_size is called with the ledger's balance.
CallGptCalculatePositionSize ==
    \E ticks \in StopDistances :
        /\ size_last' = [op |-> "gpt_calculate_position_size", mode |-> "full_live",
                         ticks |-> ticks, override |-> 0,
                         size |-> GptCalculatePositionSize(rm.account_balance, ticks)]
        /\ UNCHANGED <<clock_last, sched_last, registered, persistVars, err_last, notLib>>

\* A RiskManager built with any of the balances.
InitSize ==
    /\ today = StartDay
    /\ \E b \in SizeBalances : rm = NewRiskManager(b, StartDay)
    /\ lastOp = "other"
    /\ ret = NoResult
    /\ day_sum = 0
    /\ day_count = 0
    /\ recorded = 0
    /\ breached = FALSE
    /\ PositionInit
    /\ ThreadsIdle
    /\ BotInit /\ NewsInit /\ LibInit

SizeNext ==
    \/ CallCalculatePositionSize
    \/ CallGptCalculatePositionSize

\* ------------------------------------------------------------------------
\* Job Scheduler (TradingScheduler, modules/scheduler.py) over the
\* BackgroundScheduler it wraps. scheduler_jobs is the scheduler's job list
\* (the pending jobs before start(), the job store's afterwards); shutdown()
\* empties it. A job id is registered once: add_job raises
\* ConflictingIdError for an id the running scheduler holds, and a second
\* registration of an id still pending is not modelled.
\* ------------------------------------------------------------------------
\* The times jobs are scheduled at (HH:MM without the colon), and the days
\* of weekly tasks.
JobTimes == {"0930", "1000"}
JobDays == {"fri"}

\* The ids schedule_scan, schedule_daily_task and schedule_weekly_task give.
ScanJobId(time) == "scan_" \o time
DailyJobId(time) == "daily_" \o time
WeeklyJobId(day, time) == "weekly_" \o day \o "_" \o time

\* The ids remove_job is called with: every id above, the ids start()
\* registers, and one that is never registered.
JobIds ==
    {ScanJobId(t) : t \in JobTimes} \cup {DailyJobId(t) : t \in JobTimes}
        \cup {WeeklyJobId(d, t) : d \in JobDays, t \in JobTimes}
        \cup RegisteredJobs \cup {"scan_1130"}

NoSchedulerCall == [op |-> "none", id |-> "none", ok |-> TRUE, jobs |-> {}]

\* scheduler.add_job(..., id = id) inside a schedule_* method: the job is
\* listed and its id returned, or ConflictingIdError leaves the method.
AddJob(op, id) ==
    /\ id \notin scheduler_jobs \/ running
    /\ IF id \in scheduler_jobs
       THEN /\ sched_last' = [NoSchedulerCall EXCEPT !.op = op, !.id = id, !.ok = FALSE]
            /\ UNCHANGED <<scheduler_jobs, registered>>
       ELSE /\ scheduler_jobs' = scheduler_jobs \cup {id}
            /\ registered' = registered \cup {id}
            /\ sched_last' = [NoSchedulerCall EXCEPT !.op = op, !.id = id]
    /\ UNCHANGED <<running, trading_paused, scan, halt_reported>>
    /\ UNCHANGED <<ledgerVars, positionVars, threadVars, newsVars, clock_last, size_last, persistVars, err_last>>

\* TradingScheduler.schedule_scan(scan_time, callback)
ScheduleScan == \E t \in JobTimes : AddJob("schedule_scan", ScanJobId(t))

\* TradingScheduler.schedule_daily_task(run_time, callback)
ScheduleDailyTask == \E t \in JobTimes : AddJob("schedule_daily_task", DailyJobId(t))

\* TradingScheduler.schedule_weekly_task(day, run_time, callback)
ScheduleWeeklyTask ==
    \E d \in JobDays, t \in JobTimes : AddJob("schedule_weekly_task", WeeklyJobId(d, t))

\* TradingScheduler.remove_job(job_id): True, or False when the scheduler
\* raises JobLookupError.
RemoveJobResult(jobs, id) ==
    IF id \in jobs THEN [jobs |-> jobs \ {id}, ok |-> TRUE]
    ELSE [jobs |-> jobs, ok |-> FALSE]

RemoveJob ==
    \E id \in JobIds :
        LET res == RemoveJobResult(scheduler_jobs, id)
        IN  /\ scheduler_jobs' = res.jobs
            /\ registered' = registered \ {id}
            /\ sched_last' = [NoSchedulerCall EXCEPT !.op = "remove_job", !.id = id,
                                 !.ok = res.ok, !.jobs = scheduler_jobs]
            /\ UNCHANGED <<running, trading_paused, scan, halt_reported>>
            /\ UNCHANGED <<ledgerVars, positionVars, threadVars, newsVars, clock_last, size_last, persistVars, err_last>>

\* TradingScheduler.get_jobs()
GetJobs ==
    /\ sched_last' = [NoSchedulerCall EXCEPT !.op = "get_jobs", !.jobs = scheduler_jobs]
    /\ UNCHANGED <<scheduler_jobs, registered, running, trading_paused, scan, halt_reported>>
    /\ UNCHANGED <<ledgerVars, positionVars, threadVars, newsVars, clock_last, size_last, persistVars, err_last>>

\* The scheduler fires a job it holds: the job's callback runs.
FireJob ==
    /\ running
    /\ \E id \in scheduler_jobs :
          sched_last' = [NoSchedulerCall EXCEPT !.op = "fire", !.id = id]
    /\ UNCHANGED <<scheduler_jobs, registered, running, trading_paused, scan, halt_reported>>
    /\ UNCHANGED <<ledgerVars, positionVars, threadVars, newsVars, clock_last, size_last, persistVars, err_last>>

\* TradingScheduler.stop(): scheduler.shutdown() when running.
StopScheduler ==
    /\ running' = FALSE
    /\ scheduler_jobs' = IF running THEN {} ELSE scheduler_jobs
    /\ sched_last' = [NoSchedulerCall EXCEPT !.op = "stop"]
    /\ UNCHANGED <<registered, trading_paused, scan, halt_reported>>
    /\ UNCHANGED <<ledgerVars, positionVars, threadVars, newsVars, clock_last, size_last, persistVars, err_last>>

\* TradingScheduler.start(): scheduler.start() when not running.
StartScheduler ==
    /\ running' = TRUE
    /\ sched_last' = [NoSchedulerCall EXCEPT !.op = "start"]
    /\ UNCHANGED <<scheduler_jobs, registered, trading_paused, scan, halt_reported>>
    /\ UNCHANGED <<ledgerVars, positionVars, threadVars, newsVars, clock_last, size_last, persistVars, err_last>>

SchedulerNext ==
    \/ ScheduleScan
    \/ ScheduleDailyTask
    \/ ScheduleWeeklyTask
    \/ RemoveJob
    \/ GetJobs
    \/ FireJob
    \/ StopScheduler
    \/ StartScheduler

\* ------------------------------------------------------------------------
\* The Risk Ledger's state file (RiskManager.save_state / load_state). The
\* file holds the JSON object save_state dumps: numbers, the list of open
\* positions, and last_reset_date as the text date.isoformat() gives, here
\* the triple (year, month, day). Day 0 is Monday 2025-12-29, the first day
\* of ISO week 1 of 2026.
\* ------------------------------------------------------------------------
\* date.isoformat(), for the days from 2025-12-29 to the end of January 2026
IsoFormat(d) == IF d <= 2 THEN <<2025, 12, 29 + d>> ELSE <<2026, 1, d - 2>>

\* datetime.fromisoformat(text).date()
FromIsoFormat(s) == IF s[1] = 2025 THEN s[3] - 29 ELSE s[3] + 2

\* Mutant of StateDict: the open positions are not written.
StateDictWithoutPositions(r) ==
    [account_balance |-> r.account_balance,
     daily_pnl |-> r.daily_pnl,
     weekly_pnl |-> r.weekly_pnl,
     trades_today |-> r.trades_today,
     trades_this_week |-> r.trades_this_week,
     open_positions |-> <<>>,
     last_reset_date |-> IsoFormat(r.last_reset_date),
     last_week_reset |-> r.last_week_reset]

\* The dictionary save_state dumps.
StateDict(r) ==
    [account_balance |-> r.account_balance,
     daily_pnl |-> r.daily_pnl,
     weekly_pnl |-> r.weekly_pnl,
     trades_today |-> r.trades_today,
     trades_this_week |-> r.trades_this_week,
     open_positions |-> r.open_positions,
     last_reset_date |-> IsoFormat(r.last_reset_date),
     last_week_reset |-> r.last_week_reset]

\* The fields a replaced state file may lack.
LackedFields == {"last_reset_date"}

\* No state file yet; a file is there and holds valid JSON, or is there and
\* does not (a dump that failed after the file was opened for writing).
NoFile == [exists |-> FALSE, valid |-> FALSE, lacks |-> "none", state |-> <<>>]

\* The fields load_state assigns, in the order it assigns them.
StateFields ==
    <<"account_balance", "daily_pnl", "weekly_pnl", "trades_today", "trades_this_week",
      "open_positions", "last_reset_date", "last_week_reset">>

\* Where load_state stops: at the first field the file lacks, or past the last.
FirstLacking(file) ==
    IF \E i \in DOMAIN StateFields : StateFields[i] = file.lacks
    THEN CHOOSE i \in DOMAIN StateFields : StateFields[i] = file.lacks
    ELSE Len(StateFields) + 1

\* The values load_state reads from the file's object.
StateOfFile(file) ==
    [account_balance |-> file.state.account_balance,
     daily_pnl |-> file.state.daily_pnl,
     weekly_pnl |-> file.state.weekly_pnl,
     trades_today |-> file.state.trades_today,
     trades_this_week |-> file.state.trades_this_week,
     open_positions |-> file.state.open_positions,
     last_reset_date |-> FromIsoFormat(file.state.last_reset_date),
     last_week_reset |-> file.state.last_week_reset]

\* RiskManager.load_state on ledger r: False and nothing assigned if the file
\* is absent or does not parse; otherwise the fields are assigned one after
\* the other from the file's object, up to the first one it lacks (the
\* KeyError is caught and False returned), and True is returned after the last.
LoadStateResult(r, file) ==
    IF ~file.exists \/ ~file.valid THEN [rm |-> r, ok |-> FALSE]
    ELSE [rm |-> [f \in DOMAIN r |->
                     IF \E i \in 1..(FirstLacking(file) - 1) : StateFields[i] = f
                     THEN StateOfFile(file)[f] ELSE r[f]],
          ok |-> FirstLacking(file) > Len(StateFields)]

\* rm.save_state(filepath): the file is written; or an exception is caught
\* and False returned, before the file was touched or after it was opened.
SaveState ==
    \E outcome \in {"written", "untouched", "broken"} :
        /\ IF outcome = "written"
           THEN /\ state_file' = [exists |-> TRUE, valid |-> TRUE, lacks |-> "none", state |-> StateDict(rm)]
                /\ rm_saved' = rm
           ELSE /\ state_file' = IF outcome = "broken"
                                 THEN [state_file EXCEPT !.exists = TRUE, !.valid = FALSE]
                                 ELSE state_file
                /\ UNCHANGED rm_saved
        /\ persist_last' = [op |-> "save_state", ok |-> (outcome = "written")]
        /\ UNCHANGED <<rm2, clock_last, size_last, sched_last, registered, err_last, notLib>>

\* rm2 = RiskManager(account_balance=0); rm2.load_state(filepath)
LoadState ==
    LET res == LoadStateResult(NewRiskManager(0, today), state_file)
    IN  /\ rm2' = res.rm
        /\ persist_last' = [op |-> "load_state", ok |-> res.ok]
        /\ UNCHANGED <<state_file, rm_saved, clock_last, size_last, sched_last, registered, err_last, notLib>>

\* The state file is replaced by one that lacks a field: a file written by
\* hand or by another version of the program.
ReplaceStateFile ==
    \E f \in LackedFields :
        /\ state_file.exists /\ state_file.valid
        /\ state_file.lacks = "none"
        /\ state_file' = [state_file EXCEPT !.lacks = f]
        /\ persist_last' = [op |-> "none", ok |-> TRUE]
        /\ UNCHANGED <<rm2, rm_saved, clock_last, size_last, sched_last, registered, err_last, notLib>>

\* Days pass, the ledger rolls over and records trades and positions up to
\* the first save; then saves and loads.
PersistNext ==
    \/ /\ ~state_file.exists
       /\ \/ (recorded = 0 /\ NextDay)
          \/ (today # rm.last_reset_date /\ CheckDaily)
          \/ RecordTrade
          \/ AddOpenPosition
    \/ SaveState
    \/ LoadState

\* The same, with state files that did not come from save_state.
ForeignFileNext ==
    \/ PersistNext
    \/ ReplaceStateFile

\* ------------------------------------------------------------------------
\* The error handler (error_handler.py). An exception is its type's name and
\* its message; messages are strings, searched as the code searches them.
\* ------------------------------------------------------------------------
UpperCase == "ABCDEFGHIJKLMNOPQRSTUVWXYZ"
LowerCase == "abcdefghijklmnopqrstuvwxyz"

\* str.lower() of one character
LowerChar(c) ==
    IF \E i \in 1..Len(UpperCase) : SubSeq(UpperCase, i, i) = c
    THEN LET i == CHOOSE k \in 1..Len(UpperCase) : SubSeq(UpperCase, k, k) = c
         IN  SubSeq(LowerCase, i, i)
    ELSE c

\* sub in str(error).lower()
InLower(sub, msg) ==
    \E i \in 1..(Len(msg) - Len(sub) + 1) :
        \A j \in 1..Len(sub) : LowerChar(SubSeq(msg, i + j - 1, i + j - 1)) = SubSeq(sub, j, j)

\* The exceptions of the external analysis and API calls.
ExternalErrorTypes == {"GPTAnalysisError", "TelegramBotError", "APIError"}

\* Messages of the underlying failures: a network failure, a rate limit, a
\* timeout, a malformed answer, a rejected order.
Causes ==
    {"Connection error.", "Rate limit reached", "Request timed out.",
     "Invalid JSON", "capital too low"}

\* The exceptions handle_error is called with: the analysis call wraps its
\* failure's message, so does the Telegram initialisation; the others carry
\* the message as it is.
Errors ==
    {[type |-> "GPTAnalysisError", message |-> p \o c] :
         p \in {"OpenAI API error: ", "Analysis failed: "}, c \in Causes}
    \cup {[type |-> "TelegramBotError", message |-> "Failed to initialize Telegram bot: " \o c] :
              c \in Causes}
    \cup {[type |-> t, message |-> c] :
              t \in {"APIError", "MT5ConnectionError", "SystemExit", "KeyboardInterrupt",
                     "DataLoggerError", "ValueError", "TypeError", "RuntimeError"},
              c \in Causes}

\* classify_error_severity
ClassifyErrorSeverity(e) ==
    IF e.type \in {"MT5ConnectionError", "SystemExit", "KeyboardInterrupt"}
          \/ InLower("connection", e.message)
    THEN "critical"
    ELSE IF e.type \in ExternalErrorTypes \/ InLower("api", e.message)
    THEN "high"
    ELSE IF e.type \in {"DataLoggerError", "ValueError", "TypeError"}
    THEN "medium"
    ELSE "low"

\* The severity classify_error_severity gives each of these exceptions.
Classified == [e \in Errors |-> ClassifyErrorSeverity(e)]

\* handle_error(error, context, notify_user): the dictionary it returns.
HandleErrorCall ==
    \E e \in Errors, notify_user \in BOOLEAN :
        LET res == HandleError(Classified[e])
        IN  /\ err_last' = [type |-> e.type, message |-> e.message, notify_user |-> notify_user,
                            severity |-> res.severity,
                            system_halted |-> res.system_halted,
                            notification_sent |-> (notify_user /\ res.severity \in {"critical", "high"})]
            /\ UNCHANGED <<clock_last, size_last, sched_last, registered, persistVars, notLib>>

ErrorNext == HandleErrorCall

\* ------------------------------------------------------------------------
\* Specifications
\* ------------------------------------------------------------------------
\* The Risk Ledger, its operations called one at a time.
Init == LedgerInit /\ PositionInit /\ ThreadsIdle /\ BotInit /\ NewsInit /\ LibInit
Next == LedgerNext
Spec == Init /\ [][Next]_vars

\* The Risk Ledger of a process that may be stopped and started again.
NextRestart ==
    \/ NextDay
    \/ CanTakeTrade
    \/ RecordTrade
    \/ AddOpenPosition
    \/ Restart
SpecRestart == Init /\ [][NextRestart]_vars

\* can_take_trade() and record_trade(pnl) running in two threads.
InitThreads == ThreadsInit /\ PositionInit /\ BotInit /\ NewsInit /\ LibInit
SpecThreads == InitThreads /\ [][ThreadsNext]_vars

\* The Position Lifecycle Manager, beside a ledger that is not used.
InitPosition ==
    /\ LedgerInit
    /\ rm = NewRiskManager(100, StartDay)
    /\ PositionInit
    /\ ThreadsIdle
    /\ BotInit /\ NewsInit /\ LibInit
SpecPosition == InitPosition /\ [][PositionNext]_vars

\* The running bot: scans fire, the user pauses and resumes, trades are
\* recorded in the ledger, midnight passes, and the bot may be stopped.
InitBot ==
    /\ LedgerInit
    /\ rm = NewRiskManager(100, StartDay)
    /\ PositionInit
    /\ ThreadsIdle
    /\ BotInit /\ NewsInit /\ LibInit
NextBot ==
    \/ FireScan
    \/ PauseTrading
    \/ ResumeTrading
    \/ StopBot
    \/ RecordTrade
    \/ NextDay
SpecBot == InitBot /\ [][NextBot]_vars

\* The running bot, trading not paused, beside the positions a
\* PositionManager tracks: every job the scheduler holds keeps firing, and
\* time passes.
NextBotPositions ==
    \/ FireScan
    \/ OpenPosition
    \/ NextHour
\* The News Blackout Tracker on its own.
InitNews == InitBot
SpecNews == InitNews /\ [][NewsNext]_vars

\* update_calendar and is_safe_to_trade in two threads.
SpecNewsUpdate == InitNews /\ [][NewsUpdateNext]_vars

\* The bot from initialize() on, scans firing day after day.
SpecBotNews == InitBot /\ [][NextBotNews]_vars

\* The Clock/Window Evaluator's functions, called with any timestamp.
SpecClock == InitBot /\ [][ClockNext]_vars

\* calculate_position_size on a ledger of any balance.
SpecSize == InitSize /\ [][SizeNext]_vars

\* The Job Scheduler after StructureScoutBot.start() has registered its jobs.
SpecScheduler == InitBot /\ [][SchedulerNext]_vars

\* A ledger is used, saved, and loaded into another RiskManager.
SpecPersist == Init /\ [][PersistNext]_vars

\* handle_error called with the exceptions the components raise.
SpecErrors == Init /\ [][ErrorNext]_vars

\* A ledger is saved, the file is replaced, and it is loaded.
SpecForeignFile == Init /\ [][ForeignFileNext]_vars

SpecBotPositions ==
    /\ InitBot
    /\ [][NextBotPositions]_vars
    /\ WF_vars(FireScan)
    /\ WF_vars(NextHour)

\* ------------------------------------------------------------------------
\* Risk Ledger: the claims
\* ------------------------------------------------------------------------
DailyLossBreached(r) == r.daily_pnl * 100 < -(r.account_balance * DailyLossLimitPct)
WeeklyLossBreached(r) == r.weekly_pnl * 100 < -(r.account_balance * WeeklyLossLimitPct)

\* C1: can_take_trade() returns false whenever the day's daily_pnl is below
\* -(account_balance x daily_loss_limit), and whenever the day's trades_today
\* has reached max_trades_per_day, whatever the weekly counters and the
\* number of open positions are.
C1_DailyLimitsRefuse ==
    lastOp = "can_take_trade" =>
        /\ (DailyLossBreached(rm) => ~ret.ok)
        /\ (rm.trades_today >= MaxTradesPerDay => ~ret.ok)

\* C1 witness: a can_take_trade that refuses at exactly the daily trade cap
\* while the daily loss, both weekly limits and the position cap are fine.
C1_Witness ==
    /\ lastOp = "can_take_trade"
    /\ rm.trades_today = MaxTradesPerDay
    /\ ~DailyLossBreached(rm)
    /\ ~WeeklyLossBreached(rm)
    /\ rm.trades_this_week < MaxTradesPerWeek
    /\ Len(rm.open_positions) = 0
    /\ ~ret.ok

\* C2 (as claimed): once can_take_trade() has refused for the daily loss limit,
\* every later can_take_trade() of that calendar day refuses too.
C2_RefusalLatchedForTheDay ==
    (lastOp = "can_take_trade" /\ breached) => ~ret.ok

\* C3 (as claimed): at any moment of a calendar day on which trades were
\* recorded, daily_pnl is the sum of the pnl recorded that day and trades_today
\* their number; and every record_trade adds its pnl to weekly_pnl and one to
\* trades_this_week.
C3_DailyRunningSum ==
    [][/\ day_count' > 0 => (rm'.daily_pnl = day_sum' /\ rm'.trades_today = day_count')
       /\ lastOp' = "record_trade" =>
            /\ rm'.weekly_pnl - rm.weekly_pnl = day_sum' - day_sum
            /\ rm'.trades_this_week = rm.trades_this_week + 1]_vars

\* C4 (as claimed): the first record_trade of a new calendar day starts from
\* daily counters that were reset to 0, and a later rollover check of that day
\* does not erase what was recorded since midnight.
C4_ResetBeforeFirstRecord ==
    /\ (lastOp = "record_trade" /\ day_count = 1) =>
            (rm.daily_pnl = day_sum /\ rm.trades_today = 1)
    /\ (lastOp \in {"can_take_trade", "check_daily"} /\ day_count > 0) =>
            (rm.daily_pnl = day_sum /\ rm.trades_today = day_count)

\* The reason can_take_trade is claimed to give: the first of the five tests
\* that fails, in the claimed order.
FirstFailingReason(r) ==
    IF DailyLossBreached(r) THEN "daily_loss"
    ELSE IF r.trades_today >= MaxTradesPerDay THEN "daily_trades"
    ELSE IF WeeklyLossBreached(r) THEN "weekly_loss"
    ELSE IF r.trades_this_week >= MaxTradesPerWeek THEN "weekly_trades"
    ELSE IF Len(r.open_positions) >= MaxSimultaneousPositions THEN "max_positions"
    ELSE "all_ok"

\* C5: can_take_trade() tests the daily loss limit, the daily trade cap, the
\* weekly loss limit, the weekly trade cap and the cap of 3 open positions in
\* this order, returns the reason of the first that fails, and succeeds
\* exactly when none fails.
C5_FirstFailingReason ==
    lastOp = "can_take_trade" =>
        /\ ret.reason = FirstFailingReason(rm)
        /\ ret.ok <=> (FirstFailingReason(rm) = "all_ok")

\* C5 witness: the daily and the weekly trade cap and the position cap all
\* fail, and the daily cap is the reason given.
C5_Witness ==
    /\ lastOp = "can_take_trade"
    /\ rm.trades_today >= MaxTradesPerDay
    /\ rm.trades_this_week >= MaxTradesPerWeek
    /\ Len(rm.open_positions) >= MaxSimultaneousPositions
    /\ ret = [ok |-> FALSE, reason |-> "daily_trades"]

\* C6 (as claimed): a restart of the process on the same day leaves the ledger
\* the orchestrator consults with the daily_pnl, weekly_pnl, trades_today,
\* trades_this_week and open positions it had before.
C6_RestartKeepsLedger ==
    [][lastOp' = "restart" =>
          /\ rm'.daily_pnl = rm.daily_pnl
          /\ rm'.weekly_pnl = rm.weekly_pnl
          /\ rm'.trades_today = rm.trades_today
          /\ rm'.trades_this_week = rm.trades_this_week
          /\ rm'.open_positions = rm.open_positions]_vars

\* The counters of a ledger.
Counters(r) == <<r.daily_pnl, r.weekly_pnl, r.trades_today, r.trades_this_week>>

\* C7 (as claimed): when both threads have returned, the counters are those of
\* record_trade followed by can_take_trade, or of can_take_trade followed by
\* record_trade, run one after the other on the ledger they started from.
C7_NoLostUpdate ==
    (pc.rec = "done" /\ pc.chk = "done") =>
        Counters(rm) \in
            {Counters(CanTakeTradeResult(RecordTradeResult(rm_start, rec_pnl), today).rm),
             Counters(RecordTradeResult(CanTakeTradeResult(rm_start, today).rm, rec_pnl))}

\* ------------------------------------------------------------------------
\* Position Lifecycle Manager: the claims
\* ------------------------------------------------------------------------
\* C8: over any sequence of checks, with any prices and adapter outcomes, the
\* trailing_stop_price of a long position never decreases and that of a short
\* position never increases.
C8_TrailingStopRatchet ==
    [][\A t \in DOMAIN open_positions \cap DOMAIN open_positions' :
          /\ open_positions[t].direction = Long =>
                open_positions'[t].trailing_stop_price >= open_positions[t].trailing_stop_price
          /\ open_positions[t].direction = Short =>
                open_positions'[t].trailing_stop_price <= open_positions[t].trailing_stop_price]_vars

\* C8 witness: a check has just moved a long position's trailing stop, which
\* an earlier check had already raised above the initial stop.
C8_Witness ==
    /\ pm_last.op = "check"
    /\ pm_last.ticket \in DOMAIN open_positions
    /\ open_positions[pm_last.ticket].direction = Long
    /\ \E i \in DOMAIN calls :
          /\ calls[i].op = "update_stop_loss" /\ calls[i].ok
          /\ open_positions[pm_last.ticket].trailing_stop_price = calls[i].arg
          /\ calls[i].arg > FindNewHigherLow(2127000)
          /\ open_positions[pm_last.ticket].stop_loss < FindNewHigherLow(2127000)

\* C9: a check of a tracked position at a time >= entry_time + 3 hours issues
\* a full close for the ticket and returns a max_hold_time_close action,
\* whatever the prices, the setup type and the partial-exit state.
C9_MaxHoldForcesClose ==
    (/\ pm_last.op = "check"
     /\ pm_last.ticket \in DOMAIN open_positions
     /\ hour >= open_positions[pm_last.ticket].entry_time + MaxHoldHours) =>
        /\ Len(calls) >= 1
        /\ calls[1].op = "close_position" /\ calls[1].ticket = pm_last.ticket
        /\ Len(pm_last.actions) >= 1
        /\ pm_last.actions[1].action_type = "max_hold_time_close"
        /\ pm_last.actions[1].action_taken

\* C9 witness: a check exactly 3 hours after entry, on a position whose
\* partial exit is already done, returned the forced close.
C9_Witness ==
    /\ pm_last.op = "check"
    /\ pm_last.ticket \in DOMAIN open_positions
    /\ hour = open_positions[pm_last.ticket].entry_time + MaxHoldHours
    /\ open_positions[pm_last.ticket].partial_exit_done
    /\ pm_last.actions[1].action_type = "max_hold_time_close"

\* C10 (as claimed): a position whose full close by rule succeeded is no
\* longer tracked when that check returns, and a later check of its ticket
\* returns no_position_found and makes no adapter call.
C10_ClosedIsTerminal ==
    /\ \A t \in broker_closed : t \notin DOMAIN open_positions
    /\ (pm_last.op = "check" /\ pm_last.ticket \in broker_closed
            /\ pm_last.ticket \notin ClosedBy(calls)) =>
          (pm_last.status = "no_position_found" /\ calls = <<>>)

\* The adapter calls of kind `op` in a sequence of calls.
CallsOf(cs, op) == {i \in DOMAIN cs : cs[i].op = op}

\* The kinds of action among the actions a check returned.
ActionTypes(as) == {as[i].action_type : i \in DOMAIN as}

\* C11 (as claimed): a check of a mean_reversion position, before its hold
\* limit, in which the mean-reversion rule closed the position at
\* take_profit_1 returns exactly one action, mean_reversion_exit, and issues
\* no partial close.
C11_MeanReversionExitAlone ==
    (/\ pm_last.op = "check"
     /\ pm_last.ticket \in DOMAIN open_positions
     /\ open_positions[pm_last.ticket].setup_type = "mean_reversion"
     /\ hour < open_positions[pm_last.ticket].max_hold_time
     /\ \E i \in CallsOf(calls, "close_position") : calls[i].ok) =>
        /\ CallsOf(calls, "partial_close") = {}
        /\ "partial_exit" \notin ActionTypes(pm_last.actions)
        /\ Len(pm_last.actions) = 1
        /\ pm_last.actions[1].action_type = "mean_reversion_exit"

ActionsOfCall(op) ==
    IF op = "partial_close" THEN {"partial_exit"}
    ELSE IF op = "update_stop_loss" THEN {"trailing_stop"}
    ELSE IF op = "close_position" THEN {"max_hold_time_close", "mean_reversion_exit"}
    ELSE {}

\* C13 (as claimed): every rule action of a check whose adapter call reported
\* failure is among the actions the check returns, marked as not successful.
C13_FailedActionReported ==
    pm_last.op = "check" =>
        \A i \in DOMAIN calls :
            ~calls[i].ok =>
                \E j \in DOMAIN pm_last.actions :
                    /\ pm_last.actions[j].action_type \in ActionsOfCall(calls[i].op)
                    /\ ~pm_last.actions[j].success

\* ------------------------------------------------------------------------
\* Session Orchestrator: the claims
\* ------------------------------------------------------------------------
\* C14 (as claimed): while the bot runs, every tracked position whose
\* max-hold deadline has passed is eventually force-closed.
C14_ForceClosedEventually ==
    \A t \in Tickets :
        (t \in DOMAIN open_positions /\ hour >= open_positions[t].max_hold_time)
            ~> (t \in broker_closed)

\* The run went past the gates: it called get_previous_day_levels.
PastGates(s) == s.levels # "unasked"

\* C15: a run of main_analysis_workflow calls get_previous_day_levels, and
\* saves last_scan, only if trading was not paused and the window check, the
\* news check and can_take_trade all answered yes.
C15_AnalysisOnlyPastAllGates ==
    (PastGates(scan) \/ scan.analysed \/ scan.saved) =>
        /\ ~scan.paused
        /\ scan.window = "yes"
        /\ scan.news = "yes"
        /\ scan.risk = "yes"

\* C15 witness: a run that got yes from every gate, on a ledger that has
\* recorded trades, did the analysis and saved last_scan.
C15_Witness ==
    /\ scan.analysed /\ scan.saved
    /\ ~scan.paused /\ scan.window = "yes" /\ scan.news = "yes" /\ scan.risk = "yes"
    /\ recorded > 0
    /\ ret = [ok |-> TRUE, reason |-> "all_ok"]

SomeCallRaised(s) ==
    s.window = "raise" \/ s.news = "raise" \/ s.risk = "raise" \/ s.levels = "raise"

\* C17: a run in which a gate check or get_previous_day_levels raises ends in
\* the except clause, without analysis and without saving last_scan; the run
\* leaves the scheduler running with its jobs, so later scans fire.
C17_FailsClosed ==
    [][SomeCallRaised(scan') =>
          /\ scan'.raised
          /\ ~scan'.analysed
          /\ ~scan'.saved
          /\ (scan' # scan => (running' = running /\ scheduler_jobs' = scheduler_jobs))]_vars

\* C17 witness: the news check raised after the window check had said yes.
C17_Witness ==
    /\ scan.ran
    /\ scan.window = "yes"
    /\ scan.news = "raise"
    /\ scan.raised
    /\ running

\* C18 (as claimed): once handle_error has returned system_halted for an error
\* of a run, no later run goes past the gates until trading is resumed.
C18_HaltBlocksAnalysis ==
    (halt_reported /\ scan.ran /\ ~scan.raised) => ~PastGates(scan)

\* ------------------------------------------------------------------------
\* News Blackout Tracker: the claims
\* ------------------------------------------------------------------------
\* t lies within some tracked blackout period, bounds included.
InBlackout(t, periods) ==
    \E i \in DOMAIN periods : periods[i][1] <= t /\ t <= periods[i][2]

\* C19: is_safe_to_trade(t) returns false exactly when start <= t <= end for
\* some tracked blackout period, and true otherwise; for the period
\* [08:15, 09:00] it is false at 08:45 and at 09:00 and true at 09:01.
C19_SafeExactlyOutsideBlackouts ==
    /\ news_last.op = "is_safe_to_trade" =>
          (news_last.safe <=> ~InBlackout(news_last.t, blackout_periods))
    /\ ~IsTradingAllowedNow(525, <<<<495, 540>>>>).safe
    /\ ~IsTradingAllowedNow(540, <<<<495, 540>>>>).safe
    /\ IsTradingAllowedNow(541, <<<<495, 540>>>>).safe

\* C19 witness: with the period [08:15, 09:00] tracked, is_safe_to_trade at
\* 09:00 answered no, naming that period.
C19_Witness ==
    /\ news_last.op = "is_safe_to_trade"
    /\ blackout_periods = <<<<495, 540>>>>
    /\ news_last.t = 540
    /\ ~news_last.safe
    /\ news_last.at = 495

\* C20: get_next_safe_time(t) returns None when is_safe_to_trade(t) is true,
\* and otherwise the end of a tracked blackout period that contains t.
C20_NextSafeTimeIsBlackoutEnd ==
    news_last.op = "get_next_safe_time" =>
        IF IsTradingAllowedNow(news_last.t, blackout_periods).safe
        THEN news_last.next = NoTime
        ELSE \E i \in DOMAIN blackout_periods :
                /\ blackout_periods[i][1] <= news_last.t
                /\ news_last.t <= blackout_periods[i][2]
                /\ news_last.next = blackout_periods[i][2]

\* C20 witness: 08:45 lies in two tracked periods, [08:15, 09:00] and
\* [08:45, 09:30]; the end of the first is returned.
C20_Witness ==
    /\ news_last.op = "get_next_safe_time"
    /\ blackout_periods = <<<<495, 540>>, <<525, 570>>>>
    /\ news_last.t = 525
    /\ news_last.next = 540


\* C38: whenever get_next_safe_time(t) returns a time u, trading is safe from
\* u on: u is not strictly inside any tracked blackout period, and
\* is_safe_to_trade is true at the minute after u, also when periods overlap
\* or touch.
C38_NextSafeTimeIsSafe ==
    (news_last.op = "get_next_safe_time" /\ news_last.next # NoTime) =>
        /\ \A i \in DOMAIN blackout_periods :
               ~(blackout_periods[i][1] < news_last.next
                   /\ news_last.next < blackout_periods[i][2])
        /\ IsTradingAllowedNow(news_last.next + 1, blackout_periods).safe

\* The period the spec gives an event of the given date: from 15 minutes
\* before to 30 minutes after the event's time on that date.
PeriodOnDate(date, e) ==
    <<At(date, e.time) - BeforeMinutes, At(date, e.time) + AfterMinutes>>

\* C21: after update_calendar(date) succeeds, every high-impact event of that
\* date has a tracked blackout period on that date, from 15 minutes before
\* to 30 minutes after its time; an 08:30 event yields [08:15, 09:00].
C21_EveryHighImpactEventCovered ==
    (news_last.op = "update_calendar" /\ news_last.ok) =>
        \A i \in DOMAIN news_last.events :
            news_last.events[i].impact = "high" =>
                \E j \in DOMAIN blackout_periods :
                    blackout_periods[j] = PeriodOnDate(news_last.date, news_last.events[i])


\* C22: an update_calendar that returns False leaves blackout_periods and
\* last_update exactly as they were before the call; while an update runs,
\* the set another thread reads is the one from before the call or the
\* complete new one, never a partly built one.
C22_UpdateAllOrNothing ==
    /\ (upd.pc = "idle" /\ news_last.op = "update_calendar" /\ ~news_last.ok) =>
          (blackout_periods = upd.old_periods /\ last_update = upd.old_last)
    /\ upd.pc # "idle" =>
          blackout_periods \in {upd.old_periods, IdentifyNewsBlackoutPeriods(upd.events)}

\* C22 witness: with a set tracked from an earlier update, an update built
\* one period of a different set and then failed.
C22_Witness ==
    /\ upd.pc = "idle"
    /\ news_last.op = "update_calendar"
    /\ ~news_last.ok
    /\ upd.old_periods # <<>>
    /\ upd.old_last # NoTime
    /\ upd.built # <<>>
    /\ upd.built # upd.old_periods


\* C23: the blackout periods a scan's news check consults were generated
\* for the day of the scan, never for an earlier day.
C23_BlackoutsOfTheSameDay ==
    [][(scan' # scan /\ scan'.news \in {"yes", "no"} /\ news_last.ok) =>
          news_last.date = today]_vars


\* ------------------------------------------------------------------------
\* Clock/Window Evaluator: the claims
\* ------------------------------------------------------------------------
\* The timestamp's calendar day, on New York's clock, is a weekday that is
\* not a holiday.
IsTradingDay(d) == Weekday(d) \in 0..4 /\ d \notin Holidays

\* C24: is_market_open(t) is true exactly when t, taken in the configured
\* timezone, falls on Monday-Friday, on a date outside the holiday set, with
\* 09:30 <= time of day < 16:00; it is false on every weekend or holiday date.
C24_MarketOpenExactly ==
    clock_last.op = "is_market_open" =>
        LET l == ToZone(clock_last.t)
        IN  /\ clock_last.open <=>
                  /\ IsTradingDay(l.day)
                  /\ OpenMinute * MsPerMinute <= TimeOfDay(l)
                  /\ TimeOfDay(l) < CloseMinute * MsPerMinute
            /\ ~IsTradingDay(l.day) => ~clock_last.open

\* C24 witness: is_market_open at 09:30 New York time on Good Friday, given
\* in UTC, answered closed for the holiday; and the closing minute of an
\* ordinary Monday is closed.
C24_Witness ==
    /\ clock_last.op = "is_market_open"
    /\ clock_last.t = [day |-> 4, minute |-> 870, ms |-> 0, zone |-> "utc"]
    /\ ~clock_last.open
    /\ clock_last.reason = "holiday"
    /\ ~IsMarketOpen([day |-> 7, minute |-> CloseMinute, ms |-> 0, zone |-> "naive"]).open
    /\ IsMarketOpen([day |-> 7, minute |-> 959, ms |-> 50, zone |-> "naive"]).open

\* C25: is_trading_window(t, start, end) is true exactly when
\* is_market_open(t) is true and start <= time of day <= end: on an open
\* trading day it is true at t = end and false one minute later.
C25_TradingWindowExactly ==
    /\ clock_last.op = "is_trading_window" =>
          (clock_last.in_window <=>
              /\ IsMarketOpen(clock_last.t).open
              /\ clock_last.start * MsPerMinute <= TimeOfDay(ToZone(clock_last.t))
              /\ TimeOfDay(ToZone(clock_last.t)) <= clock_last.end * MsPerMinute)
    /\ IsTradingWindow([day |-> 7, minute |-> 690, ms |-> 0, zone |-> "naive"], OpenMinute, 690)
    /\ ~IsTradingWindow([day |-> 7, minute |-> 691, ms |-> 0, zone |-> "naive"], OpenMinute, 690)

\* C25 witness: on an open Monday, is_trading_window at 11:30 for the window
\* 09:30-11:30 answered true.
C25_Witness ==
    /\ clock_last.op = "is_trading_window"
    /\ clock_last.t = [day |-> 7, minute |-> 690, ms |-> 0, zone |-> "naive"]
    /\ clock_last.start = OpenMinute /\ clock_last.end = 690
    /\ clock_last.in_window

\* The days among the 10 calendar days after day d on which the market
\* opens.
OpenDaysAfter(d) == {k \in 1..MaxLookaheadDays : IsTradingDay(d + k)}

\* C26: calculate_next_trading_session(t) takes at most 10 day-steps and
\* returns 09:30 on the earliest open day among the 10 calendar days after
\* t; it returns the fallback t + 1 day only when none of them is open.
C26_NextSessionIsEarliestOpenDay ==
    clock_last.op = "calculate_next_trading_session" =>
        LET d == clock_last.t.day
            open == OpenDaysAfter(d)
        IN  /\ clock_last.steps <= MaxLookaheadDays
            /\ IF open # {}
               THEN LET k == CHOOSE i \in open : \A j \in open : i <= j
                    IN  /\ clock_last.found
                        /\ ToZone(clock_last.at).day = d + k
                        /\ TimeOfDay(ToZone(clock_last.at)) = OpenMinute * MsPerMinute
               ELSE clock_last.at = PlusDays(clock_last.t, 1)

\* C36: every scan of the registered schedule passes the window check when
\* its job fires on an open trading day: fired at its scheduled instant or
\* within a second after it, the 11:30 scan included, it is not rejected by
\* is_trading_window as outside the 09:30-11:30 window.
C36_ScheduledScansPassWindow ==
    (clock_last.op = "scan_window_check" /\ IsTradingDay(clock_last.t.day)) =>
        clock_last.in_window



\* ------------------------------------------------------------------------
\* Position sizing: the claim
\* ------------------------------------------------------------------------
\* C27: in full_live mode calculate_position_size returns
\* floor(account_balance x risk_per_trade / (stop_distance_ticks x
\* point_value)) for every positive stop distance (balance 5000, 20 ticks
\* gives 10), never a negative size, and 0 for a stop distance of zero.
C27_RiskBasedSizeIsFloor ==
    size_last.op = "calculate_position_size" =>
        /\ size_last.size >= 0
        /\ (size_last.mode = "full_live" /\ size_last.ticks > 0) =>
              \* size = floor(q)  <=>  size <= q < size + 1
              LET num == rm.account_balance * RiskPerTradePct * 4
                  den == 100 * size_last.ticks * PointValueQuarters
              IN  /\ size_last.size * den <= num
                  /\ num < (size_last.size + 1) * den
        /\ (size_last.mode = "full_live" /\ size_last.ticks = 0) => size_last.size = 0
        /\ (size_last.mode = "full_live" /\ size_last.ticks = 20
               /\ rm.account_balance = 5000) => size_last.size = 10

\* C27 witness: balance 5000, 1% risk, 20 ticks at 0.25 a point gave size 10.
C27_Witness ==
    /\ size_last.op = "calculate_position_size"
    /\ size_last.mode = "full_live"
    /\ size_last.ticks = 20
    /\ rm.account_balance = 5000
    /\ size_last.size = 10


\* ------------------------------------------------------------------------
\* Job Scheduler: the claim
\* ------------------------------------------------------------------------
\* C28: an id returned by schedule_scan, schedule_daily_task or
\* schedule_weekly_task is listed by get_jobs() until remove_job(id) is
\* called; remove_job(id) then returns True and the id is no longer listed
\* nor fired; remove_job of an id that is not registered returns False and
\* leaves the registrations unchanged.
C28_RegisteredUntilRemoved ==
    /\ registered \subseteq scheduler_jobs
    /\ sched_last.op = "get_jobs" => registered \subseteq sched_last.jobs
    /\ sched_last.op = "fire" => sched_last.id \in registered
    /\ sched_last.op = "remove_job" =>
          /\ sched_last.id \notin scheduler_jobs
          /\ sched_last.ok <=> sched_last.id \in sched_last.jobs
          /\ ~sched_last.ok => scheduler_jobs = sched_last.jobs


\* ------------------------------------------------------------------------
\* The Risk Ledger's state file: the claim
\* ------------------------------------------------------------------------
\* C29: save_state followed by load_state into another RiskManager
\* reproduces account_balance, daily_pnl, weekly_pnl, trades_today,
\* trades_this_week, open_positions, last_reset_date and last_week_reset
\* exactly.
C29_SaveLoadRoundTrip ==
    (persist_last.op = "load_state" /\ persist_last.ok) =>
        /\ rm2.account_balance = rm_saved.account_balance
        /\ rm2.daily_pnl = rm_saved.daily_pnl
        /\ rm2.weekly_pnl = rm_saved.weekly_pnl
        /\ rm2.trades_today = rm_saved.trades_today
        /\ rm2.trades_this_week = rm_saved.trades_this_week
        /\ rm2.open_positions = rm_saved.open_positions
        /\ rm2.last_reset_date = rm_saved.last_reset_date
        /\ rm2.last_week_reset = rm_saved.last_week_reset

\* C29 witness: a ledger with a loss recorded, two open positions and a
\* reset date after the first day was saved and loaded.
C29_Witness ==
    /\ persist_last.op = "load_state" /\ persist_last.ok
    /\ rm_saved = rm
    /\ rm2.daily_pnl < 0
    /\ rm2.trades_today > 0
    /\ Len(rm2.open_positions) = 2
    /\ rm2.last_reset_date > StartDay


\* C30: the max-hold-time rule is checked first and overrides all other
\* rules: in a check at or after the position's deadline the forced close is
\* the only action returned and the only adapter call made; no partial exit,
\* trailing-stop update or mean-reversion exit is attempted.
C30_MaxHoldOverridesOtherRules ==
    (/\ pm_last.op = "check"
     /\ pm_last.status = "completed"
     /\ pm_last.ticket \in DOMAIN open_positions
     /\ MaxHoldReached(open_positions[pm_last.ticket], hour)) =>
        /\ Len(pm_last.actions) = 1
        /\ pm_last.actions[1].action_type = "max_hold_time_close"
        /\ Len(calls) = 1
        /\ calls[1].op = "close_position"


\* C31: when price reaches take_profit_1 in favour of a position that is not
\* a mean-reversion one and whose partial exit is pending, the check closes
\* original_size x 0.5 and leaves the record with partial_exit_done true,
\* current_size reduced by the closed amount and the protective stop at
\* entry_price (checks in which the trailing rule then moved the stop again
\* are left aside).
C31_PartialExitUpdatesRecord ==
    (/\ pm_last.op = "check"
     /\ pm_last.status = "completed"
     /\ pm_last.ticket \in DOMAIN open_positions
     /\ open_positions[pm_last.ticket].setup_type # "mean_reversion"
     /\ "partial_exit" \in ActionTypes(pm_last.actions)
     /\ "trailing_stop" \notin ActionTypes(pm_last.actions)) =>
        LET pos == open_positions[pm_last.ticket]
        IN  /\ \E i \in DOMAIN calls :
                   /\ calls[i].op = "partial_close"
                   /\ calls[i].arg = pos.original_size \div 2
                   /\ pos.current_size = pos.original_size - calls[i].arg
            /\ pos.partial_exit_done
            /\ pos.stop_loss = pos.entry_price \/ pos.trailing_stop_price = pos.entry_price


\* C37: once the partial exit has moved the protective stop to breakeven, no
\* stop update the trailing rule sends to the adapter is on the losing side
\* of entry_price: not below it for a long position, not above it for a short.
C37_TrailingNeverLoosensPastBreakeven ==
    (/\ pm_last.op = "check"
     /\ pm_last.status = "completed"
     /\ pm_last.ticket \in DOMAIN open_positions
     /\ open_positions[pm_last.ticket].partial_exit_done) =>
        LET pos == open_positions[pm_last.ticket]
        IN  \A i \in CallsOf(calls, "update_stop_loss") :
                IF pos.direction = Long
                THEN calls[i].arg >= pos.entry_price
                ELSE calls[i].arg <= pos.entry_price

\* ------------------------------------------------------------------------
\* The scan workflow and the ledger: further claims
\* ------------------------------------------------------------------------
\* C32: in main_analysis_workflow the checks run in the order pause flag,
\* trading window, news blackout, Risk Ledger, and the first refusal ends the
\* run; when the pause, window or news check refuses, can_take_trade is not
\* called and the ledger is left as it was, rollover resets included (steps
\* that record a trade aside, every step is checked).
C32_RefusedRunLeavesLedger ==
    [][(scan'.ran /\ recorded' = recorded) =>
          /\ scan'.paused =>
                 (scan'.window = "unasked" /\ scan'.news = "unasked" /\ scan'.risk = "unasked")
          /\ ~scan'.paused => scan'.window # "unasked"
          /\ scan'.news # "unasked" <=> scan'.window = "yes"
          /\ scan'.risk # "unasked" <=> scan'.news = "yes"
          /\ PastGates(scan') <=> scan'.risk = "yes"
          /\ scan'.risk = "unasked" => rm' = rm]_vars

\* C32 witness: a day after the ledger's last reset, with trades recorded, a
\* run was refused by the news check; the ledger still carries the old date.
C32_Witness ==
    /\ scan.ran /\ ~scan.paused
    /\ scan.window = "yes" /\ scan.news = "no" /\ scan.risk = "unasked"
    /\ rm.last_reset_date # today
    /\ rm.trades_today > 0


\* C33: the lazy rollover check is idempotent: after a call of
\* can_take_trade, check_daily_risk_limits or check_weekly_risk_limits, the
\* same call made again on the same day and in the same ISO week, with no
\* record_trade in between, returns the same result and changes no field of
\* the ledger.
C33_RolloverCheckIdempotent ==
    /\ lastOp = "can_take_trade" =>
           CanTakeTradeResult(rm, today) = [rm |-> rm, ret |-> ret]
    /\ lastOp = "check_daily" =>
           CheckDailyRiskLimits(rm, today) = [rm |-> rm, ret |-> ret]
    /\ lastOp = "check_weekly" =>
           CheckWeeklyRiskLimits(rm, today) = [rm |-> rm, ret |-> ret]

\* C33 witness: a call of can_take_trade on a later day rolled the daily
\* counters over after trades had been recorded, and let the trade through.
C33_Witness ==
    /\ lastOp = "can_take_trade"
    /\ recorded > 0
    /\ day_count = 0
    /\ today > StartDay
    /\ rm.last_reset_date = today
    /\ rm.trades_today = 0
    /\ rm.trades_this_week > 0
    /\ ret.ok


\* ------------------------------------------------------------------------
\* The error handler: the claim
\* ------------------------------------------------------------------------
\* C34: every external analysis/API failure (GPTAnalysisError,
\* TelegramBotError, APIError) is classified High whatever its message says,
\* and handle_error does not report system_halted for it.
C34_ExternalFailuresAreHigh ==
    err_last.type \in ExternalErrorTypes =>
        /\ err_last.severity = "high"
        /\ ~err_last.system_halted


\* C35: load_state is all-or-nothing: when it returns False (file missing,
\* malformed, or lacking a field) every field of the RiskManager it was called
\* on is what it was before the call.
C35_FailedLoadChangesNothing ==
    [][(persist_last'.op = "load_state" /\ ~persist_last'.ok) =>
          (rm2' = rm2 \/ rm2' = NewRiskManager(0, today))]_vars


\* C39: in every state reachable from a fresh RiskManager through
\* record_trade, can_take_trade, check_daily_risk_limits and
\* check_weekly_risk_limits calls made at arbitrary times, the daily trade
\* count does not exceed the weekly one.
C39_DailyCountWithinWeekly ==
    rm.trades_today <= rm.trades_this_week


\* C40: gpt_analysis.calculate_position_size and
\* RiskManager.calculate_position_size('full_live', ...) return the same
\* position size for every balance and integer stop distance, zero and
\* negative stop distances included, and neither returns a negative size.
C40_SizingFunctionsAgree ==
    /\ size_last.op = "gpt_calculate_position_size" =>
          /\ size_last.size = CalculatePositionSize(rm, "full_live", size_last.ticks, 0)
          /\ size_last.size >= 0
    /\ (size_last.op = "calculate_position_size" /\ size_last.mode = "full_live") =>
          /\ size_last.size = GptCalculatePositionSize(rm.account_balance, size_last.ticks)
          /\ size_last.size >= 0

====
